---- MODULE Spec2Model ----
(***************************************************************************)
(* log-sweep: scanning for and removing console.* calls.                   *)
(*                                                                         *)
(* A source text is modelled by the syntax tree Babel's parser gives for   *)
(* it (a record per node, `type` as in the Babel AST), git by the output   *)
(* of the blame / diff / ls-files queries, and the file system by a map    *)
(* from path to content.                                                   *)
(***************************************************************************)
EXTENDS Integers, Sequences, FiniteSets, TLC

\* ------------------------------------------------------------------ bounds
\* statements of a source text in the single-source specification
MaxStmts == 2
\* lines of a `git diff` output in the oracle specification
MaxDiffLines == 2
\* lines of a `git blame` output in the oracle specification
MaxBlameLines == 3
\* arguments in a call handed to detectSideEffects on its own
MaxArgs == 2

\* ------------------------------------------------------------- JS values
\* JavaScript's null (also what a caught exception turns into)
NULL == [kind |-> "null"]
\* the marker string 'all' of getUncommittedLines
ALL == [kind |-> "all"]
\* a Set of line numbers
LineSet(S) == [kind |-> "set", lines |-> S]
\* a Map from line number to author e-mail
AuthorMap(m) == [kind |-> "map", authors |-> m]

\* ------------------------------------------------------------ syntax tree
Identifier(name) == [type |-> "Identifier", name |-> name]
StringLiteral(value) == [type |-> "StringLiteral", value |-> value]
NumericLiteral(value) == [type |-> "NumericLiteral", value |-> value]
MemberExpression(object, property, computed) ==
    [type |-> "MemberExpression", object |-> object, property |-> property,
     computed |-> computed]
OptionalMemberExpression(object, property, computed) ==
    [type |-> "OptionalMemberExpression", object |-> object,
     property |-> property, computed |-> computed]
\* loc.start of a call: line (1-based) and column
CallExpression(callee, arguments, line, column) ==
    [type |-> "CallExpression", callee |-> callee, arguments |-> arguments,
     loc |-> [start |-> [line |-> line, column |-> column]]]
\* a call that is part of an optional chain, console?.log(1)
OptionalCallExpression(callee, arguments, line, column) ==
    [type |-> "OptionalCallExpression", callee |-> callee,
     arguments |-> arguments,
     loc |-> [start |-> [line |-> line, column |-> column]]]
UpdateExpression(argument) == [type |-> "UpdateExpression", argument |-> argument]
AssignmentExpression(left, right) ==
    [type |-> "AssignmentExpression", left |-> left, right |-> right]
AwaitExpression(argument) == [type |-> "AwaitExpression", argument |-> argument]
YieldExpression(argument) == [type |-> "YieldExpression", argument |-> argument]
\* params: the set of parameter names; body: the statements of the block
ArrowFunctionExpression(params, body) ==
    [type |-> "ArrowFunctionExpression", params |-> params, body |-> body]
\* statements carry the line they start on (loc.start.line)
ExpressionStatement(expression, line) ==
    [type |-> "ExpressionStatement", expression |-> expression, line |-> line]
\* const <name> = <init>;
VariableDeclaration(name, init, line) ==
    [type |-> "VariableDeclaration", id |-> name, init |-> init, line |-> line]
FunctionDeclaration(name, params, body, line) ==
    [type |-> "FunctionDeclaration", id |-> name, params |-> params,
     body |-> body, line |-> line]

\* the children of a node, in the order Babel's VISITOR_KEYS visits them
ChildNodes(n) ==
    CASE n.type \in {"CallExpression", "OptionalCallExpression"} ->
            <<n.callee>> \o n.arguments
      [] n.type \in {"MemberExpression", "OptionalMemberExpression"} ->
            <<n.object, n.property>>
      [] n.type \in {"UpdateExpression", "AwaitExpression", "YieldExpression"} ->
            <<n.argument>>
      [] n.type = "AssignmentExpression" -> <<n.left, n.right>>
      [] n.type \in {"ArrowFunctionExpression", "FunctionDeclaration"} -> n.body
      [] n.type = "ExpressionStatement" -> <<n.expression>>
      [] n.type = "VariableDeclaration" -> <<n.init>>
      [] OTHER -> <<>>

\* path.parent.type as seen from a child of n
ChildParentType(n) ==
    IF n.type = "VariableDeclaration" THEN "VariableDeclarator" ELSE n.type

\* n with its children replaced by kids (ChildNodes' inverse)
WithChildren(n, kids) ==
    CASE n.type \in {"CallExpression", "OptionalCallExpression"} ->
            [n EXCEPT !.callee = kids[1], !.arguments = Tail(kids)]
      [] n.type \in {"MemberExpression", "OptionalMemberExpression"} ->
            [n EXCEPT !.object = kids[1], !.property = kids[2]]
      [] n.type \in {"UpdateExpression", "AwaitExpression", "YieldExpression"} ->
            [n EXCEPT !.argument = kids[1]]
      [] n.type = "AssignmentExpression" ->
            [n EXCEPT !.left = kids[1], !.right = kids[2]]
      [] n.type \in {"ArrowFunctionExpression", "FunctionDeclaration"} ->
            [n EXCEPT !.body = kids]
      [] n.type = "ExpressionStatement" -> [n EXCEPT !.expression = kids[1]]
      [] n.type = "VariableDeclaration" -> [n EXCEPT !.init = kids[1]]
      [] OTHER -> n

\* the names a statement list declares in the scope that owns it
DeclaredIn(body) ==
    {body[i].id : i \in {j \in DOMAIN body :
        body[j].type \in {"VariableDeclaration", "FunctionDeclaration"}}}

\* the bindings of the scope a node opens (none when it opens no scope)
ScopeBindings(n) ==
    IF n.type \in {"ArrowFunctionExpression", "FunctionDeclaration"}
    THEN n.params \cup DeclaredIn(n.body)
    ELSE {}

\* path.scope.hasBinding(name): bindings holds every name bound in a scope
\* enclosing the path, the program's included
hasBinding(bindings, name) == name \in bindings

\* --------------------------------------------------------- side effects
SideEffectTypes ==
    {"UpdateExpression", "AssignmentExpression", "AwaitExpression", "YieldExpression"}

RECURSIVE ContainsSideEffect(_)
\* the callback of traverse.cheap, run on a node and all its descendants
ContainsSideEffect(n) ==
    \/ n.type \in SideEffectTypes
    \/ \E i \in DOMAIN ChildNodes(n) : ContainsSideEffect(ChildNodes(n)[i])

\* remover.js detectSideEffects (scanner.js holds the same function): the
\* walk over the arguments, as it runs where `traverse.default.cheap` is
\* Babel's cheap traversal
detectSideEffects(args) == \E i \in DOMAIN args : ContainsSideEffect(args[i])

\* ----------------------------------------------------------- git oracles
\* `git config user.email` of the current user, and another author's
Me == "me@example.com"
Other == "other@example.com"

\* --- output of `git blame --line-porcelain`, a line per record:
\* "<40 hex digits> <orig-line> <final-line> ..."
BlameHeader(finalLine) == [kind |-> "header", finalLine |-> finalLine]
\* "author-mail <email>"
BlameAuthorMail(email) == [kind |-> "author-mail", email |-> email]
\* any other line (author, committer, summary, the content line, ...)
BlameOther == [kind |-> "other"]
\* the command's result: it throws (status "error") or prints output
GitFails == [status |-> "error"]
GitPrints(output) == [status |-> "ok", output |-> output]

RECURSIVE BlameLoop(_, _, _, _)
\* the for loop of getFileBlame over the output's lines, from line i on
BlameLoop(lines, i, currentLine, lineAuthors) ==
    IF i > Len(lines) THEN lineAuthors
    ELSE LET line == lines[i]
             cur == IF line.kind = "header" THEN line.finalLine ELSE currentLine
             set == /\ line.kind = "author-mail"
                    /\ cur > 0
                    /\ line.email # ""
         IN  BlameLoop(lines, i + 1, cur,
                 IF set
                 THEN [l \in DOMAIN lineAuthors \cup {cur} |->
                          IF l = cur THEN line.email ELSE lineAuthors[l]]
                 ELSE lineAuthors)

\* getFileBlame: null when the query throws, else the line -> e-mail map
getFileBlame(blameResult) ==
    IF blameResult.status = "error" THEN NULL
    ELSE AuthorMap(BlameLoop(blameResult.output, 1, 0, <<>>))

\* mutant: a file without blame has no line of the current user
LineByCurrentUser_NoBlameNotMine(blame, lineNumber, currentUserEmail) ==
    /\ blame # NULL
    /\ lineNumber \in DOMAIN blame.authors
    /\ blame.authors[lineNumber] = currentUserEmail

\* mutant: a line the blame map does not hold counts as the current user's
LineByCurrentUser_AbsentIsMine(blame, lineNumber, currentUserEmail) ==
    IF blame = NULL THEN TRUE
    ELSE lineNumber \in DOMAIN blame.authors
         => blame.authors[lineNumber] = currentUserEmail

\* the body of isLineByCurrentUser after the cache lookup: blame is the
\* cache's entry for the file
LineByCurrentUser(blame, lineNumber, currentUserEmail) ==
    IF blame = NULL THEN TRUE
    ELSE /\ lineNumber \in DOMAIN blame.authors
         /\ blame.authors[lineNumber] = currentUserEmail

\* --- output of `git diff --unified=0 HEAD <file>`, a line per record:
\* "@@ -a[,b] +newStart[,newCount] @@": the regular expression's groups 1
\* and 2 (hasCount is false when group 2 did not take part in the match)
DiffHunk(newStart, hasCount, newCount) ==
    [kind |-> "hunk", newStart |-> newStart, hasCount |-> hasCount,
     newCount |-> newCount]
\* a line that is not a hunk header ("diff --git ...", "+added", ...)
DiffText == [kind |-> "text"]
\* a line of white space only
DiffBlank == [kind |-> "blank"]
\* the diff query's result and what `git ls-files --error-unmatch` says
GitDiff(result, tracked) == [diff |-> result, tracked |-> tracked]

\* mutant: the loop runs to lineCount inclusive
HunkLines_OffByOne(startLine, i, lineCount) ==
    {startLine + k : k \in i..lineCount}

RECURSIVE HunkLines(_, _, _)
\* for (let i = 0; i < lineCount; i++) uncommittedLines.add(startLine + i)
HunkLines(startLine, i, lineCount) ==
    IF i < lineCount
    THEN {startLine + i} \cup HunkLines(startLine, i + 1, lineCount)
    ELSE {}

RECURSIVE DiffLoop(_, _)
\* the for loop of getUncommittedLines over the output's lines, from i on
DiffLoop(lines, i) ==
    IF i > Len(lines) THEN {}
    ELSE LET line == lines[i]
             lineCount == IF line.hasCount THEN line.newCount ELSE 1
         IN  (IF line.kind = "hunk"
              THEN HunkLines(line.newStart, 0, lineCount)
              ELSE {}) \cup DiffLoop(lines, i + 1)

\* mutant: no output always means "not modified"
getUncommittedLines_NoLsFiles(git) ==
    IF git.diff.status = "error" THEN NULL
    ELSE IF \A i \in DOMAIN git.diff.output : git.diff.output[i].kind = "blank"
         THEN NULL
         ELSE LineSet(DiffLoop(git.diff.output, 1))

\* getUncommittedLines
getUncommittedLines(git) ==
    IF git.diff.status = "error" THEN NULL
    ELSE IF \A i \in DOMAIN git.diff.output : git.diff.output[i].kind = "blank"
         THEN (IF git.tracked THEN NULL ELSE ALL)
         ELSE LineSet(DiffLoop(git.diff.output, 1))

\* isLineUncommitted
isLineUncommitted(lineNumber, uncommittedLines) ==
    IF uncommittedLines = NULL THEN FALSE
    ELSE IF uncommittedLines = ALL THEN TRUE
    ELSE lineNumber \in uncommittedLines.lines

\* ------------------------------------------------------------- the state
VARIABLES
    disk,                   \* file path -> content (fs)
    disk0,                  \* the content before the run (history)
    gitBlame,               \* file path -> result of `git blame` on it
    gitDiff,                \* file path -> result of `git diff` / ls-files
    repo,                   \* the repository: rev-parse, config, status
    traverseDefault,        \* what `traverse.default` is in the two modules,
                            \* where traverse is require('@babel/traverse').default:
                            \* "function" (the traversal, again) or "undefined"
    options,                \* the command line of `log-sweep remove`
    files,                  \* scanDirectory: the files to scan
    scan,                   \* scanDirectory's results (null before the scan)
    scanIdx,                \* position of scanDirectory's for loop in files
    answers,                \* what the user answered to the prompts
    filesToModify,          \* removeCommand's filesToModify, insertion order
    backupPath,             \* null or the archive createBackup made
    filePaths,              \* removeConsoleStatements' arguments ...
    methodsToRemove,
    dryRun,
    gitContext,             \* ... null or the context's flags and user
    blameCache,             \* blameCache of the git context in use
    uncommittedLinesCache,  \* uncommittedLinesCache of the same context
    queries,                \* how often git was asked: [cmd, filePath] -> count
                            \* (history)
    idx,                    \* position of the for loop in filePaths
    totalRemoved,
    pc,                     \* where the program is: "start", "scan", "prompt",
                            \* "confirm", "loop", "returned", "threw", "done", "exit1"
    results,                \* file path -> what removeFromSource returned
    written,                \* the paths given to fs.writeFileSync, in order
    error,                  \* null or the error the command ended with
    oracle                  \* the last direct call of a git helper and its answer

\* what no operation changes: git's answers and the content before the run
envVars == <<disk0, gitBlame, gitDiff, repo, traverseDefault, options>>
\* removeConsoleStatements' arguments
callVars == <<filePaths, methodsToRemove, dryRun, gitContext>>
cacheVars == <<blameCache, uncommittedLinesCache, queries>>
\* removeCommand's locals
cliVars == <<files, scan, scanIdx, answers, filesToModify, backupPath>>
\* removeConsoleStatements' locals and effects
runVars == <<idx, totalRemoved, pc, results, written, error>>

vars == <<disk, envVars, cliVars, callVars, cacheVars, runVars, oracle>>

\* a Map with the entry key -> value set
MapSet(map, key, value) ==
    [k \in DOMAIN map \cup {key} |-> IF k = key THEN value ELSE map[k]]

\* the two caches of a new git context
NewCaches == [blameCache |-> <<>>, uncommittedLinesCache |-> <<>>]

\* the count of git queries after cmd was run for each file of asked
Issued(count, cmd, asked) ==
    LET keys == {[cmd |-> cmd, filePath |-> f] : f \in asked}
    IN  [k \in DOMAIN count \cup keys |->
            (IF k \in DOMAIN count THEN count[k] ELSE 0)
            + (IF k \in keys THEN 1 ELSE 0)]

\* git is asked for a file when the file enters a cache: the count of
\* queries after the caches went from `before` to `after`
QueriesAfter(count, before, after) ==
    Issued(Issued(count, "blame",
                  DOMAIN after.blameCache \ DOMAIN before.blameCache),
           "diff",
           DOMAIN after.uncommittedLinesCache \ DOMAIN before.uncommittedLinesCache)

\* an Error with its message; filePath: the file the message names
Error(message, filePath) == [message |-> message, filePath |-> filePath]

\* ---------------------------------------------------------------- remover
\* mutant: the scope is not asked whether it binds `console`
RemoverCheckMemberExpression_NoScope(memberExpr, bindings, methods) ==
    IF \/ memberExpr.object.type # "Identifier"
       \/ memberExpr.object.name # "console"
    THEN NULL
    ELSE LET method ==
                 IF memberExpr.property.type = "Identifier" /\ ~memberExpr.computed
                 THEN memberExpr.property.name
                 ELSE IF memberExpr.property.type = "StringLiteral"
                         /\ memberExpr.computed
                      THEN memberExpr.property.value
                      ELSE ""
         IN  IF method = "" \/ method \notin methods
             THEN NULL
             ELSE [method |-> method, isGlobal |-> TRUE]

\* remover.js checkMemberExpression; bindings: the names bound around path
RemoverCheckMemberExpression(memberExpr, bindings, methods) ==
    IF \/ memberExpr.object.type # "Identifier"
       \/ memberExpr.object.name # "console"
    THEN NULL
    ELSE IF hasBinding(bindings, "console") THEN NULL
    ELSE LET method ==
                 IF memberExpr.property.type = "Identifier" /\ ~memberExpr.computed
                 THEN memberExpr.property.name
                 ELSE IF memberExpr.property.type = "StringLiteral"
                         /\ memberExpr.computed
                      THEN memberExpr.property.value
                      ELSE ""
         IN  IF method = "" \/ method \notin methods
             THEN NULL
             ELSE [method |-> method, isGlobal |-> TRUE]

\* remover.js isConsoleMethodCall
RemoverIsConsoleMethodCall(node, bindings, methods) ==
    IF node.callee.type \in {"OptionalMemberExpression", "MemberExpression"}
    THEN RemoverCheckMemberExpression(node.callee, bindings, methods)
    ELSE NULL

\* mutant: the uncommitted filter is an `else` of the author filter
RemoverCallExpression_ElseIf(node, parentType, bindings, ctx) ==
    LET lineNumber == node.loc.start.line
        g == ctx.gitContext
    IN  IF RemoverIsConsoleMethodCall(node, bindings, ctx.methodsToRemove) = NULL
        THEN "not_console_call"
        ELSE IF /\ g # NULL
                /\ g.filterMine
                /\ ~LineByCurrentUser(ctx.blame, lineNumber, g.currentUser.email)
        THEN "skip_author"
        ELSE IF /\ g # NULL
                /\ ~g.filterMine
                /\ g.filterUncommitted
                /\ ~isLineUncommitted(lineNumber, ctx.uncommittedLines)
        THEN "skip_uncommitted"
        ELSE IF g # NULL /\ g.skipSideEffects /\ detectSideEffects(node.arguments)
        THEN "skip_side_effects"
        ELSE IF parentType = "ExpressionStatement"
        THEN "statement_removed"
        ELSE "replaced"

\* mutant: a line of the current user is removed at once, the later
\* filters are not asked
RemoverCallExpression_MineFirst(node, parentType, bindings, ctx) ==
    LET lineNumber == node.loc.start.line
        g == ctx.gitContext
        removal == IF parentType = "ExpressionStatement"
                   THEN "statement_removed"
                   ELSE "replaced"
    IN  IF RemoverIsConsoleMethodCall(node, bindings, ctx.methodsToRemove) = NULL
        THEN "not_console_call"
        ELSE IF /\ g # NULL
                /\ g.filterMine
                /\ ~LineByCurrentUser(ctx.blame, lineNumber, g.currentUser.email)
        THEN "skip_author"
        ELSE IF g # NULL /\ g.filterMine
        THEN removal
        ELSE IF /\ g # NULL
                /\ g.filterUncommitted
                /\ ~isLineUncommitted(lineNumber, ctx.uncommittedLines)
        THEN "skip_uncommitted"
        ELSE IF g # NULL /\ g.skipSideEffects /\ detectSideEffects(node.arguments)
        THEN "skip_side_effects"
        ELSE removal

\* mutant: the parent's type is never matched, every call is replaced
RemoverCallExpression_NoStatement(node, parentType, bindings, ctx) ==
    LET lineNumber == node.loc.start.line
        g == ctx.gitContext
    IN  IF RemoverIsConsoleMethodCall(node, bindings, ctx.methodsToRemove) = NULL
        THEN "not_console_call"
        ELSE IF /\ g # NULL
                /\ g.filterMine
                /\ ~LineByCurrentUser(ctx.blame, lineNumber, g.currentUser.email)
        THEN "skip_author"
        ELSE IF /\ g # NULL
                /\ g.filterUncommitted
                /\ ~isLineUncommitted(lineNumber, ctx.uncommittedLines)
        THEN "skip_uncommitted"
        ELSE IF g # NULL /\ g.skipSideEffects /\ detectSideEffects(node.arguments)
        THEN "skip_side_effects"
        ELSE "replaced"

\* The CallExpression visitor of removeFromSource, up to the mutation: what
\* it does with the call at `node`. ctx carries the closure's variables.
RemoverCallExpression(node, parentType, bindings, ctx) ==
    LET lineNumber == node.loc.start.line
        g == ctx.gitContext
    IN  IF RemoverIsConsoleMethodCall(node, bindings, ctx.methodsToRemove) = NULL
        THEN "not_console_call"
        ELSE IF /\ g # NULL
                /\ g.filterMine
                /\ ~LineByCurrentUser(ctx.blame, lineNumber, g.currentUser.email)
        THEN "skip_author"
        ELSE IF /\ g # NULL
                /\ g.filterUncommitted
                /\ ~isLineUncommitted(lineNumber, ctx.uncommittedLines)
        THEN "skip_uncommitted"
        ELSE IF g # NULL /\ g.skipSideEffects /\ detectSideEffects(node.arguments)
        THEN "skip_side_effects"
        ELSE IF parentType = "ExpressionStatement"
        THEN "statement_removed"
        ELSE "replaced"

\* mutant: the call is replaced by its first argument
Placeholder_FirstArgument(node) ==
    IF node.arguments = <<>> THEN Identifier("undefined") ELSE node.arguments[1]

\* what path.replaceWith puts in the place of a call inside an expression
Placeholder(node) == Identifier("undefined")

RECURSIVE RemoverTraverse(_, _, _, _)
RECURSIVE RemoverTraverseList(_, _, _, _)
\* traverse(ast, {CallExpression}) below node n. out: what is left in n's
\* place (nothing, n rebuilt, or the placeholder); removeParent: the visitor
\* removed n's parent statement; visits: the visitor's calls, in order.
\* After path.parentPath.remove() the call's own path is neither replaced
\* nor flagged, so Babel goes on into the call's children; after
\* path.replaceWith() the old node's children are not visited.
RemoverTraverse(n, parentType, bindings, ctx) ==
    LET kids == RemoverTraverseList(ChildNodes(n), ChildParentType(n),
                                    bindings \cup ScopeBindings(n), ctx)
        stay == [out |-> <<WithChildren(n, kids.out)>>, removeParent |-> FALSE,
                 removedCount |-> kids.removedCount, visits |-> kids.visits]
    IN  IF n.type = "CallExpression"
        THEN LET outcome == RemoverCallExpression(n, parentType, bindings, ctx)
                 visit == [node |-> n, parentType |-> parentType,
                           shadowed |-> hasBinding(bindings, "console"),
                           outcome |-> outcome]
             IN  CASE outcome = "statement_removed" ->
                        [out |-> <<>>, removeParent |-> TRUE,
                         removedCount |-> 1 + kids.removedCount,
                         visits |-> <<visit>> \o kids.visits]
                   [] outcome = "replaced" ->
                        [out |-> <<Placeholder(n)>>,
                         removeParent |-> FALSE,
                         removedCount |-> 1, visits |-> <<visit>>]
                   [] OTHER ->
                        [stay EXCEPT !.visits = <<visit>> \o kids.visits]
        ELSE IF n.type = "ExpressionStatement"
        THEN LET e == RemoverTraverse(n.expression, "ExpressionStatement",
                                      bindings, ctx)
             IN  IF e.removeParent
                 THEN [e EXCEPT !.removeParent = FALSE]
                 ELSE [e EXCEPT !.out = <<WithChildren(n, e.out)>>]
        ELSE stay

RemoverTraverseList(nodes, parentType, bindings, ctx) ==
    IF nodes = <<>>
    THEN [out |-> <<>>, removedCount |-> 0, visits |-> <<>>]
    ELSE LET h == RemoverTraverse(Head(nodes), parentType, bindings, ctx)
             t == RemoverTraverseList(Tail(nodes), parentType, bindings, ctx)
         IN  [out |-> h.out \o t.out,
              removedCount |-> h.removedCount + t.removedCount,
              visits |-> h.visits \o t.visits]

\* a file's text: whether Babel parses it ("ok"; "recoverable": only with
\* errorRecovery; "fatal": never) and the program body it parses to
SourceText(syntax, body) == [syntax |-> syntax, body |-> body]

\* removeFromSource. Beside what the function returns (code, modified,
\* removedCount; threw: it threw instead), the record holds the caches as
\* the call leaves them and the visitor's calls. caches: the two Maps of
\* context.
removeFromSource(sourceCode, methods, filePath, context, caches) ==
    LET blameMap == caches.blameCache
        linesMap == caches.uncommittedLinesCache
        wantUncommitted == context # NULL /\ context.filterUncommitted
        uncommittedLines ==
            IF ~wantUncommitted THEN NULL
            ELSE IF filePath \notin DOMAIN linesMap
                 THEN getUncommittedLines(gitDiff[filePath])
                 ELSE linesMap[filePath]
        linesCache ==
            IF wantUncommitted /\ filePath \notin DOMAIN linesMap
            THEN [f \in DOMAIN linesMap \cup {filePath} |->
                     IF f = filePath THEN uncommittedLines
                     ELSE linesMap[f]]
            ELSE linesMap
        blame == IF filePath \in DOMAIN blameMap
                 THEN blameMap[filePath]
                 ELSE getFileBlame(gitBlame[filePath])
        ctx == [methodsToRemove |-> methods, gitContext |-> context,
                blame |-> blame, uncommittedLines |-> uncommittedLines]
        t == RemoverTraverseList(sourceCode.body, "Program",
                                 DeclaredIn(sourceCode.body), ctx)
        \* isLineByCurrentUser ran, and filled the cache, if the visitor came
        \* to the author filter for some call
        askedBlame ==
            /\ context # NULL
            /\ context.filterMine
            /\ \E i \in DOMAIN t.visits : t.visits[i].outcome # "not_console_call"
        authorCache ==
            IF askedBlame /\ filePath \notin DOMAIN blameMap
            THEN [f \in DOMAIN blameMap \cup {filePath} |->
                     IF f = filePath THEN blame ELSE blameMap[f]]
            ELSE blameMap
    IN  IF sourceCode.syntax # "ok"
        THEN [threw |-> TRUE, code |-> sourceCode, modified |-> FALSE,
              removedCount |-> 0, visits |-> <<>>,
              blameCache |-> blameMap, uncommittedLinesCache |-> linesCache]
        ELSE [threw |-> FALSE, code |-> SourceText("ok", t.out),
              modified |-> t.removedCount > 0,
              removedCount |-> t.removedCount, visits |-> t.visits,
              blameCache |-> authorCache, uncommittedLinesCache |-> linesCache]

\* mutant: every processed file is written back
ShouldWrite_Always(dry, result) == ~dry

\* mutant: nothing is written inside the loop
ShouldWrite_Never(dry, result) == FALSE

\* mutant: the dryRun flag is not looked at
ShouldWrite_IgnoresDryRun(dry, result) == result.modified

\* if (!dryRun && result.modified)
ShouldWrite(dry, result) == ~dry /\ result.modified

\* removeConsoleStatements: one turn of the for loop
RemoveLoop ==
    /\ pc = "loop"
    /\ idx <= Len(filePaths)
    /\ LET filePath == filePaths[idx]
           result == removeFromSource(disk[filePath], methodsToRemove,
                                      filePath, gitContext,
                                      [blameCache |-> blameCache,
                                       uncommittedLinesCache |-> uncommittedLinesCache])
       IN  /\ results' = [f \in DOMAIN results \cup {filePath} |->
                             IF f = filePath THEN result ELSE results[f]]
           /\ blameCache' = result.blameCache
           /\ uncommittedLinesCache' = result.uncommittedLinesCache
           /\ queries' = QueriesAfter(queries,
                              [blameCache |-> blameCache,
                               uncommittedLinesCache |-> uncommittedLinesCache],
                              result)
           /\ IF result.threw
              THEN /\ pc' = "threw"
                   /\ error' = Error("Failed to process", filePath)
                   /\ UNCHANGED <<totalRemoved, disk, written, idx>>
              ELSE /\ totalRemoved' = totalRemoved + result.removedCount
                   /\ error' = error
                   /\ IF ShouldWrite(dryRun, result)
                      THEN /\ disk' = [disk EXCEPT ![filePath] = result.code]
                           /\ written' = Append(written, filePath)
                      ELSE UNCHANGED <<disk, written>>
                   /\ idx' = idx + 1
                   /\ pc' = pc
    /\ UNCHANGED <<envVars, cliVars, callVars, oracle>>

\* removeConsoleStatements: return totalRemoved
RemoveReturn ==
    /\ pc = "loop"
    /\ idx > Len(filePaths)
    /\ pc' = "returned"
    /\ UNCHANGED <<disk, envVars, cliVars, callVars, cacheVars, idx,
                   totalRemoved, results, written, error, oracle>>

RECURSIVE removeConsoleStatements(_, _, _, _, _)
\* removeConsoleStatements as one call, from the loop's state `run` (disk,
\* caches, totalRemoved, written; threw: removeFromSource threw) over the
\* file paths left
removeConsoleStatements(run, paths, methods, dry, context) ==
    IF paths = <<>> \/ run.threw THEN run
    ELSE LET filePath == Head(paths)
             result == removeFromSource(run.disk[filePath], methods, filePath,
                           context,
                           [blameCache |-> run.blameCache,
                            uncommittedLinesCache |-> run.uncommittedLinesCache])
             cached == [run EXCEPT
                           !.blameCache = result.blameCache,
                           !.uncommittedLinesCache = result.uncommittedLinesCache]
         IN  IF result.threw
             THEN [cached EXCEPT !.threw = TRUE]
             ELSE removeConsoleStatements(
                      [cached EXCEPT
                          !.totalRemoved = @ + result.removedCount,
                          !.disk = IF ShouldWrite(dry, result)
                                   THEN [@ EXCEPT ![filePath] = result.code]
                                   ELSE @,
                          !.written = IF ShouldWrite(dry, result)
                                      THEN Append(@, filePath)
                                      ELSE @],
                      Tail(paths), methods, dry, context)

\* ---------------------------------------------------------------- scanner
\* knownMethods of checkMemberExpression, the keys of initializeMethodStats
KnownMethods ==
    {"log", "warn", "info", "debug", "error", "trace", "table", "dir", "dirxml",
     "assert", "count", "countReset", "time", "timeEnd", "timeLog", "timeStamp",
     "group", "groupCollapsed", "groupEnd", "profile", "profileEnd", "clear"}

\* scanner.js checkMemberExpression
ScannerCheckMemberExpression(memberExpr, bindings) ==
    IF \/ memberExpr.object.type # "Identifier"
       \/ memberExpr.object.name # "console"
    THEN NULL
    ELSE LET isGlobal == ~hasBinding(bindings, "console")
             method ==
                 IF memberExpr.property.type = "Identifier" /\ ~memberExpr.computed
                 THEN memberExpr.property.name
                 ELSE IF memberExpr.property.type = "StringLiteral"
                         /\ memberExpr.computed
                      THEN memberExpr.property.value
                      ELSE ""
         IN  IF method = "" THEN NULL
             ELSE IF method \notin KnownMethods THEN NULL
             ELSE [method |-> method, isGlobal |-> isGlobal]

\* scanner.js isConsoleMethodCall
ScannerIsConsoleMethodCall(node, bindings) ==
    IF node.callee.type \in {"OptionalMemberExpression", "MemberExpression"}
    THEN ScannerCheckMemberExpression(node.callee, bindings)
    ELSE NULL

\* The CallExpression visitor of scanFile: what it does with the call
ScannerCallExpression(node, bindings, ctx) ==
    LET isConsoleCall == ScannerIsConsoleMethodCall(node, bindings)
        lineNumber == node.loc.start.line
        g == ctx.gitContext
    IN  IF isConsoleCall = NULL
        THEN "not_console_call"
        ELSE IF ~isConsoleCall.isGlobal
        THEN "skip_shadowed"
        ELSE IF /\ g # NULL
                /\ g.filterMine
                /\ ~LineByCurrentUser(ctx.blame, lineNumber, g.currentUser.email)
        THEN "skip_author"
        ELSE IF /\ g # NULL
                /\ g.filterUncommitted
                /\ ~isLineUncommitted(lineNumber, ctx.uncommittedLines)
        THEN "skip_uncommitted"
        ELSE "reported"

RECURSIVE ScannerTraverse(_, _, _)
RECURSIVE ScannerTraverseList(_, _, _)
\* traverse(ast, {CallExpression}) of scanFile below node n: the visitor's
\* calls, in order; nothing is changed, so every call below is visited
ScannerTraverse(n, bindings, ctx) ==
    LET kids == ScannerTraverseList(ChildNodes(n),
                                    bindings \cup ScopeBindings(n), ctx)
    IN  IF n.type = "CallExpression"
        THEN <<[node |-> n,
                shadowed |-> hasBinding(bindings, "console"),
                outcome |-> ScannerCallExpression(n, bindings, ctx)]>> \o kids
        ELSE kids

ScannerTraverseList(nodes, bindings, ctx) ==
    IF nodes = <<>> THEN <<>>
    ELSE ScannerTraverse(Head(nodes), bindings, ctx)
         \o ScannerTraverseList(Tail(nodes), bindings, ctx)

\* the record scanFile pushes for a reported call (endLine, endColumn and
\* code, which only the display uses, are left out)
ScanStatement(node) ==
    [method |-> IF node.callee.computed THEN node.callee.property.value
                ELSE node.callee.property.name,
     line |-> node.loc.start.line,
     column |-> node.loc.start.column,
     hasSideEffects |-> detectSideEffects(node.arguments)]

RECURSIVE SortByLine(_)
\* statements.sort((a, b) => a.line - b.line), a stable sort
SortByLine(statements) ==
    IF statements = <<>> THEN <<>>
    ELSE LET h == Head(statements)
             rest == SortByLine(Tail(statements))
         IN  SelectSeq(rest, LAMBDA x : x.line < h.line)
             \o <<h>>
             \o SelectSeq(rest, LAMBDA x : x.line >= h.line)

\* the scanner's gitContext (scanDirectory 144-153) without its caches
ScanContext(mine, uncommitted, uncommittedFiles) ==
    [filterMine |-> mine, filterUncommitted |-> uncommitted,
     currentUser |-> IF mine THEN [email |-> Me] ELSE NULL,
     uncommittedFiles |-> uncommittedFiles]

\* scanFile on a file of the given content. Beside what the function
\* returns (count, statements; threw: it threw instead), the record holds
\* the caches as the call leaves them and the visitor's calls.
scanFile(content, filePath, context, caches) ==
    LET blame == IF filePath \in DOMAIN caches.blameCache
                 THEN caches.blameCache[filePath]
                 ELSE getFileBlame(gitBlame[filePath])
        uncommittedLines ==
            IF filePath \in DOMAIN caches.uncommittedLinesCache
            THEN caches.uncommittedLinesCache[filePath]
            ELSE getUncommittedLines(gitDiff[filePath])
        ctx == [gitContext |-> context, blame |-> blame,
                uncommittedLines |-> uncommittedLines]
        visits == ScannerTraverseList(content.body, DeclaredIn(content.body), ctx)
        \* the visitor came to the author filter, to the uncommitted filter
        askedBlame ==
            /\ context # NULL
            /\ context.filterMine
            /\ \E i \in DOMAIN visits :
                  visits[i].outcome \in {"skip_author", "skip_uncommitted", "reported"}
        askedLines ==
            /\ context # NULL
            /\ context.filterUncommitted
            /\ \E i \in DOMAIN visits :
                  visits[i].outcome \in {"skip_uncommitted", "reported"}
        reported == SelectSeq(visits, LAMBDA v : v.outcome = "reported")
        statements == [i \in DOMAIN reported |-> ScanStatement(reported[i].node)]
    IN  IF content.syntax = "fatal"
        THEN [threw |-> TRUE, file |-> filePath, count |-> 0,
              statements |-> <<>>, visits |-> <<>>,
              blameCache |-> caches.blameCache,
              uncommittedLinesCache |-> caches.uncommittedLinesCache]
        ELSE [threw |-> FALSE, file |-> filePath, count |-> Len(statements),
              statements |-> SortByLine(statements), visits |-> visits,
              blameCache |->
                  IF askedBlame
                  THEN MapSet(caches.blameCache, filePath, blame)
                  ELSE caches.blameCache,
              uncommittedLinesCache |->
                  IF askedLines
                  THEN MapSet(caches.uncommittedLinesCache, filePath,
                              uncommittedLines)
                  ELSE caches.uncommittedLinesCache]

\* initializeMethodStats
initializeMethodStats == [m \in KnownMethods |-> [count |-> 0, files |-> <<>>]]

\* the results scanDirectory starts from, with its git context
NewScan(context) ==
    [totalCount |-> 0, fileCount |-> 0, byMethod |-> initializeMethodStats,
     byFile |-> <<>>, gitFiltered |-> context # NULL, gitContext |-> context]

\* mutant: a method is counted once for a file, however many statements
\* of the file call it
ScanRecord_OncePerFile(totals, file, fileResults) ==
    LET st == fileResults.statements
        Of(m) == Cardinality({i \in DOMAIN st : st[i].method = m})
    IN  IF Len(st) = 0 THEN totals
        ELSE [totals EXCEPT
                 !.byFile = MapSet(@, file, fileResults),
                 !.fileCount = @ + 1,
                 !.totalCount = @ + fileResults.count,
                 !.byMethod = [m \in DOMAIN @ |->
                     IF Of(m) = 0 THEN @[m]
                     ELSE [count |-> @[m].count + 1,
                           files |-> IF \E i \in DOMAIN @[m].files : @[m].files[i] = file
                                     THEN @[m].files
                                     ELSE Append(@[m].files, file)]]]

\* scanDirectory 183-193: a file's results go into the totals
ScanRecord(totals, file, fileResults) ==
    LET st == fileResults.statements
        Of(m) == Cardinality({i \in DOMAIN st : st[i].method = m})
    IN  IF Len(st) = 0 THEN totals
        ELSE [totals EXCEPT
                 !.byFile = MapSet(@, file, fileResults),
                 !.fileCount = @ + 1,
                 !.totalCount = @ + fileResults.count,
                 !.byMethod = [m \in DOMAIN @ |->
                     IF Of(m) = 0 THEN @[m]
                     ELSE [count |-> @[m].count + Of(m),
                           files |-> IF \E i \in DOMAIN @[m].files : @[m].files[i] = file
                                     THEN @[m].files
                                     ELSE Append(@[m].files, file)]]]

\* mutant: a file that cannot be parsed is recorded with no statement
ScanFileInto_RecordsFailure(acc, file, content) ==
    LET fileResults == scanFile(content, file, acc.results.gitContext,
                           [blameCache |-> acc.blameCache,
                            uncommittedLinesCache |-> acc.uncommittedLinesCache])
    IN  IF fileResults.threw
        THEN [acc EXCEPT !.results.byFile = MapSet(@, file, fileResults),
                         !.results.fileCount = @ + 1]
        ELSE [results |-> ScanRecord(acc.results, file, fileResults),
              blameCache |-> fileResults.blameCache,
              uncommittedLinesCache |-> fileResults.uncommittedLinesCache]

\* scanDirectory 179-200, one turn of the loop over files: acc holds the
\* results and the git context's caches; an error of scanFile is swallowed
ScanFileInto(acc, file, content) ==
    LET fileResults == scanFile(content, file, acc.results.gitContext,
                           [blameCache |-> acc.blameCache,
                            uncommittedLinesCache |-> acc.uncommittedLinesCache])
    IN  IF fileResults.threw
        THEN acc
        ELSE [results |-> ScanRecord(acc.results, file, fileResults),
              blameCache |-> fileResults.blameCache,
              uncommittedLinesCache |-> fileResults.uncommittedLinesCache]

\* ------------------------------------------------------- inputs: sources
Console == Identifier("console")
\* console.<method>(<arguments>) at line:column
ConsoleCall(method, arguments, line, column) ==
    CallExpression(MemberExpression(Console, Identifier(method), FALSE),
                   arguments, line, column)

\* One statement of each shape, put on the given line.
StatementKinds ==
    <<"warn_init", "log", "shadow_fn", "log_incr", "nested", "foo", "optional",
      "computed", "dynamic", "custom", "shadow_param", "closure", "nested_init",
      "assign", "shadow_top">>

Statement(kind, line) ==
    CASE kind = "log" ->          \* console.log("hi");
            ExpressionStatement(
                ConsoleCall("log", <<StringLiteral("hi")>>, line, 0), line)
      [] kind = "warn_init" ->    \* const x = console.warn(y);
            VariableDeclaration("x",
                ConsoleCall("warn", <<Identifier("y")>>, line, 10), line)
      [] kind = "shadow_fn" ->    \* function f() { const console = mock; console.log(1); }
            FunctionDeclaration("f", {},
                <<VariableDeclaration("console", Identifier("mock"), line),
                  ExpressionStatement(
                      ConsoleCall("log", <<NumericLiteral(1)>>, line, 40), line)>>,
                line)
      [] kind = "log_incr" ->     \* console.log(i++);
            ExpressionStatement(
                ConsoleCall("log", <<UpdateExpression(Identifier("i"))>>, line, 0),
                line)
      [] kind = "nested" ->       \* console.log(console.warn(1));
            ExpressionStatement(
                ConsoleCall("log",
                    <<ConsoleCall("warn", <<NumericLiteral(1)>>, line, 12)>>,
                    line, 0),
                line)
      [] kind = "foo" ->          \* foo();
            ExpressionStatement(
                CallExpression(Identifier("foo"), <<>>, line, 0), line)
      [] kind = "optional" ->     \* console?.log(1);
            ExpressionStatement(
                OptionalCallExpression(
                    OptionalMemberExpression(Console, Identifier("log"), FALSE),
                    <<NumericLiteral(1)>>, line, 0),
                line)
      [] kind = "computed" ->     \* console['warn'](1);
            ExpressionStatement(
                CallExpression(
                    MemberExpression(Console, StringLiteral("warn"), TRUE),
                    <<NumericLiteral(1)>>, line, 0),
                line)
      [] kind = "dynamic" ->      \* console[k](1);
            ExpressionStatement(
                CallExpression(MemberExpression(Console, Identifier("k"), TRUE),
                               <<NumericLiteral(1)>>, line, 0),
                line)
      [] kind = "custom" ->       \* console.custom(1);
            ExpressionStatement(
                ConsoleCall("custom", <<NumericLiteral(1)>>, line, 0), line)
      [] kind = "shadow_param" -> \* function g(console) { console.warn(1); }
            FunctionDeclaration("g", {"console"},
                <<ExpressionStatement(
                      ConsoleCall("warn", <<NumericLiteral(1)>>, line, 24), line)>>,
                line)
      [] kind = "closure" ->      \* console.log(() => { x++; });
            ExpressionStatement(
                ConsoleCall("log",
                    <<ArrowFunctionExpression({},
                        <<ExpressionStatement(UpdateExpression(Identifier("x")),
                                              line)>>)>>,
                    line, 0),
                line)
      [] kind = "nested_init" ->  \* const z = console.log(console.warn(1));
            VariableDeclaration("z",
                ConsoleCall("log",
                    <<ConsoleCall("warn", <<NumericLiteral(1)>>, line, 22)>>,
                    line, 10),
                line)
      [] kind = "assign" ->       \* console.warn(x = console.log(1));
            ExpressionStatement(
                ConsoleCall("warn",
                    <<AssignmentExpression(Identifier("x"),
                        ConsoleCall("log", <<NumericLiteral(1)>>, line, 17))>>,
                    line, 0),
                line)
      [] kind = "shadow_top" ->   \* const console = mock;
            VariableDeclaration("console", Identifier("mock"), line)

RECURSIVE Ascending(_)
\* the members of a set of numbers, in ascending order
Ascending(S) ==
    IF S = {} THEN <<>>
    ELSE LET m == CHOOSE x \in S : \A y \in S : x <= y
         IN  <<m>> \o Ascending(S \ {m})

\* the program with one statement of each given kind, a statement per line
Program(kinds) == [i \in DOMAIN kinds |-> Statement(StatementKinds[kinds[i]], i)]

\* the source texts of the single-source specification: at most MaxStmts
\* statements of different kinds, a text that does not parse, and one that
\* parses with errorRecovery only
SourceTexts ==
    {SourceText("ok", Program(Ascending(k))) :
        k \in {T \in SUBSET DOMAIN StatementKinds : Cardinality(T) <= MaxStmts}}
    \cup {SourceText("fatal", <<>>),
          SourceText("recoverable", <<Statement("log", 1)>>)}

\* ---------------------------------------------- inputs: selection and git
\* gitContext as cli.js builds it (filterMine, filterUncommitted,
\* skipSideEffects, currentUser), or null
Context(mine, uncommitted, skip) ==
    [filterMine |-> mine, filterUncommitted |-> uncommitted,
     skipSideEffects |-> skip,
     currentUser |-> IF mine THEN [email |-> Me] ELSE NULL]

Contexts ==
    {NULL} \cup ({Context(m, u, s) : m \in BOOLEAN, u \in BOOLEAN, s \in BOOLEAN}
                 \ {Context(FALSE, FALSE, FALSE)})

MethodSelections == {{"log"}, {"warn", "custom"}, {"log", "warn"}}

\* blame: the query fails, or line 1 is mine and line 2 somebody else's
BlameSamples ==
    {GitFails,
     GitPrints(<<BlameHeader(1), BlameAuthorMail(Me), BlameOther,
                 BlameHeader(2), BlameAuthorMail(Other), BlameOther>>)}

\* diff: the query fails; no output for a tracked / an untracked file; one
\* hunk "@@ -1,0 +2 @@"
DiffSamples ==
    {GitDiff(GitFails, TRUE),
     GitDiff(GitPrints(<<>>), TRUE),
     GitDiff(GitPrints(<<>>), FALSE),
     GitDiff(GitPrints(<<DiffText, DiffHunk(2, FALSE, 0), DiffText>>), TRUE)}

\* a context consults an oracle only with the filter on: the other oracle's
\* answer is fixed
BlameFor(context) ==
    IF context # NULL /\ context.filterMine THEN BlameSamples ELSE {GitFails}
DiffFor(context) ==
    IF context # NULL /\ context.filterUncommitted
    THEN DiffSamples ELSE {GitDiff(GitFails, TRUE)}

\* ------------------------------------- specification: one source, any call
Cwd == <<"w">>
SrcFile == Cwd \o <<"a.js">>

\* what the specifications without the command line leave fixed
NoGit == [isRepository |-> TRUE, userConfigured |-> TRUE, status |-> GitFails]
NoOptions ==
    [directory |-> <<>>, gitMine |-> FALSE, gitUncommitted |-> FALSE,
     backup |-> FALSE, dryRun |-> FALSE]
\* proceed holds the answers given to the final confirmation: none before it
\* is asked, then <<TRUE>> or <<FALSE>>
NoAnswers ==
    [methods |-> {}, sideEffectsHandling |-> "undefined", proceed |-> <<>>]

\* the scanner's context for the filters of a remover context
ScanContextOf(context) ==
    IF context = NULL \/ (~context.filterMine /\ ~context.filterUncommitted)
    THEN NULL
    ELSE ScanContext(context.filterMine, context.filterUncommitted, NULL)

\* scanFile(SrcFile, context) is called, with a context of its own
ScanFile ==
    /\ pc = "scan"
    /\ LET context == ScanContextOf(gitContext)
           fileResults == scanFile(disk[SrcFile], SrcFile, context, NewCaches)
       IN  /\ scan' = [NewScan(context) EXCEPT
                          !.byFile = MapSet(<<>>, SrcFile, fileResults)]
           /\ queries' = QueriesAfter(queries, NewCaches, fileResults)
    /\ pc' = "loop"
    /\ UNCHANGED <<disk, envVars, files, scanIdx, answers, filesToModify,
                   backupPath, callVars, blameCache, uncommittedLinesCache, idx,
                   totalRemoved, results, written, error, oracle>>

\* scanFile(SrcFile, ...) and then
\* removeConsoleStatements([SrcFile], methods, dryRun, context) are called
InitSrc ==
    /\ disk \in [{SrcFile} -> SourceTexts]
    /\ disk0 = disk
    /\ repo = NoGit
    /\ options = NoOptions
    /\ files = <<SrcFile>>
    /\ scan = NULL
    /\ scanIdx = 1
    /\ answers = NoAnswers
    /\ filesToModify = <<>>
    /\ backupPath = NULL
    /\ gitContext \in Contexts
    /\ gitBlame \in [{SrcFile} -> BlameFor(gitContext)]
    /\ gitDiff \in [{SrcFile} -> DiffFor(gitContext)]
    /\ filePaths = <<SrcFile>>
    /\ methodsToRemove \in MethodSelections
    /\ dryRun \in BOOLEAN
    /\ blameCache = <<>>
    /\ uncommittedLinesCache = <<>>
    /\ idx = 1
    /\ totalRemoved = 0
    /\ pc = "scan"
    /\ results = <<>>
    /\ written = <<>>
    /\ error = NULL
    /\ queries = <<>>
    /\ traverseDefault = "function"
    /\ oracle = NULL

NextSrc == ScanFile \/ RemoveLoop \/ RemoveReturn

SpecSrc == InitSrc /\ [][NextSrc]_vars

\* ------------------------------------------- specification: git helpers
\* the lines a diff output is made of
DiffLineKinds ==
    {DiffText, DiffBlank}
    \cup {DiffHunk(s, FALSE, 0) : s \in {1, 2, 12}}
    \cup {DiffHunk(s, TRUE, c) : s \in {1, 2, 12}, c \in {0, 1, 3}}

\* the lines a blame output is made of
BlameLineKinds ==
    {BlameOther}
    \cup {BlameHeader(l) : l \in {0, 1, 2}}
    \cup {BlameAuthorMail(e) : e \in {Me, Other, ""}}

\* all sequences over S of length at most n
SeqsUpTo(S, n) == UNION {[1..k -> S] : k \in 0..n}

DiffResults ==
    {GitDiff(r, t) :
        r \in {GitFails} \cup {GitPrints(o) : o \in SeqsUpTo(DiffLineKinds, MaxDiffLines)},
        t \in BOOLEAN}

BlameResults ==
    {GitFails} \cup {GitPrints(o) : o \in SeqsUpTo(BlameLineKinds, MaxBlameLines)}

\* the line numbers and e-mails the helpers are asked about
QueryLines == {1, 2, 9, 13}
QueryEmails == {Me, Other}

\* isLineByCurrentUser(filePath, lineNumber, currentUserEmail, blameCache, baseDir)
isLineByCurrentUser(filePath, lineNumber, currentUserEmail) ==
    /\ blameCache' =
          IF filePath \notin DOMAIN blameCache
          THEN [f \in DOMAIN blameCache \cup {filePath} |->
                   IF f = filePath THEN getFileBlame(gitBlame[filePath])
                   ELSE blameCache[f]]
          ELSE blameCache
    /\ queries' = Issued(queries, "blame", {filePath} \ DOMAIN blameCache)
    /\ oracle' = [fn |-> "isLineByCurrentUser", filePath |-> filePath,
                  lineNumber |-> lineNumber, email |-> currentUserEmail,
                  value |-> LineByCurrentUser(blameCache'[filePath], lineNumber,
                                              currentUserEmail)]
    /\ UNCHANGED <<disk, envVars, cliVars, callVars, uncommittedLinesCache,
                   runVars>>

\* the uncommitted filter as scanner and remover run it for one line: the
\* file's lines come from the cache, which getUncommittedLines fills on the
\* first use, and go to isLineUncommitted
UncommittedFilter(filePath, lineNumber) ==
    /\ uncommittedLinesCache' =
          IF filePath \notin DOMAIN uncommittedLinesCache
          THEN [f \in DOMAIN uncommittedLinesCache \cup {filePath} |->
                   IF f = filePath THEN getUncommittedLines(gitDiff[filePath])
                   ELSE uncommittedLinesCache[f]]
          ELSE uncommittedLinesCache
    /\ queries' = Issued(queries, "diff", {filePath} \ DOMAIN uncommittedLinesCache)
    /\ oracle' = [fn |-> "isLineUncommitted", filePath |-> filePath,
                  lineNumber |-> lineNumber, email |-> "",
                  value |-> isLineUncommitted(lineNumber,
                                              uncommittedLinesCache'[filePath])]
    /\ UNCHANGED <<disk, envVars, cliVars, callVars, blameCache, runVars>>

\* one file; either its diff or its blame ranges over all bounded outputs
InitGit ==
    /\ disk = [f \in {SrcFile} |-> SourceText("ok", <<>>)]
    /\ disk0 = disk
    /\ repo = NoGit
    /\ options = NoOptions
    /\ files = <<>>
    /\ scan = NULL
    /\ scanIdx = 1
    /\ answers = NoAnswers
    /\ filesToModify = <<>>
    /\ backupPath = NULL
    /\ \/ /\ gitDiff \in [{SrcFile} -> DiffResults]
          /\ gitBlame = [f \in {SrcFile} |-> GitFails]
       \/ /\ gitBlame \in [{SrcFile} -> BlameResults]
          /\ gitDiff = [f \in {SrcFile} |-> GitDiff(GitFails, TRUE)]
    /\ filePaths = <<>>
    /\ methodsToRemove = {}
    /\ dryRun = TRUE
    /\ gitContext = NULL
    /\ blameCache = <<>>
    /\ uncommittedLinesCache = <<>>
    /\ idx = 1
    /\ totalRemoved = 0
    /\ pc = "idle"
    /\ results = <<>>
    /\ written = <<>>
    /\ error = NULL
    /\ queries = <<>>
    /\ traverseDefault = "function"
    /\ oracle = NULL

AskAuthor ==
    \E l \in QueryLines, e \in QueryEmails : isLineByCurrentUser(SrcFile, l, e)

AskUncommitted ==
    \E l \in QueryLines : UncommittedFilter(SrcFile, l)

NextGit == AskAuthor \/ AskUncommitted

SpecGit == InitGit /\ [][NextGit]_vars

\* --------------------------------- specification: detectSideEffects
\* the arguments a call may have: literals and reads, the four kinds of
\* node the callback looks for, at the top, below a call and inside the
\* body of a function
Arguments ==
    {StringLiteral("hi"), NumericLiteral(1), Identifier("y"),
     MemberExpression(Identifier("a"), Identifier("b"), FALSE),
     CallExpression(Identifier("foo"), <<Identifier("y")>>, 1, 12),
     UpdateExpression(Identifier("i")),
     AssignmentExpression(Identifier("x"), NumericLiteral(1)),
     AwaitExpression(Identifier("p")),
     YieldExpression(Identifier("v")),
     CallExpression(Identifier("foo"), <<UpdateExpression(Identifier("i"))>>, 1, 12),
     ArrowFunctionExpression({}, <<ExpressionStatement(Identifier("y"), 1)>>),
     ArrowFunctionExpression({},
        <<ExpressionStatement(UpdateExpression(Identifier("x")), 1)>>)}

ArgumentLists == SeqsUpTo(Arguments, MaxArgs)

\* a call of detectSideEffects(args) and how it ends. Line 98 of scanner.js
\* (29 of remover.js) reads traverse.default.cheap for each argument:
\* where traverse.default is undefined that is a TypeError, thrown at the
\* first argument
CallDetectSideEffects(args) ==
    IF args # <<>> /\ traverseDefault = "undefined"
    THEN [threw |-> TRUE, value |-> NULL]
    ELSE [threw |-> FALSE, value |-> detectSideEffects(args)]

\* detectSideEffects(args) is called
DetectSideEffects ==
    /\ pc = "idle"
    /\ \E args \in ArgumentLists :
          /\ oracle' = [fn |-> "detectSideEffects", args |-> args,
                        result |-> CallDetectSideEffects(args)]
          /\ pc' = IF oracle'.result.threw THEN "threw" ELSE "returned"
    /\ UNCHANGED <<disk, envVars, cliVars, callVars, cacheVars, idx,
                   totalRemoved, results, written, error>>

\* no file, no git: only the module's binding of traverse matters
InitFx ==
    /\ disk = <<>>
    /\ disk0 = disk
    /\ gitBlame = <<>>
    /\ gitDiff = <<>>
    /\ repo = NoGit
    /\ traverseDefault \in {"function", "undefined"}
    /\ options = NoOptions
    /\ files = <<>>
    /\ scan = NULL
    /\ scanIdx = 1
    /\ answers = NoAnswers
    /\ filesToModify = <<>>
    /\ backupPath = NULL
    /\ filePaths = <<>>
    /\ methodsToRemove = {}
    /\ dryRun = TRUE
    /\ gitContext = NULL
    /\ blameCache = <<>>
    /\ uncommittedLinesCache = <<>>
    /\ queries = <<>>
    /\ idx = 1
    /\ totalRemoved = 0
    /\ pc = "idle"
    /\ results = <<>>
    /\ written = <<>>
    /\ error = NULL
    /\ oracle = NULL

NextFx == DetectSideEffects

SpecFx == InitFx /\ [][NextFx]_vars

\* ------------------------------------ specification: `log-sweep remove`
\* path.dirname, path.relative (of a path below dir) and the test for it
Dirname(path) == SubSeq(path, 1, Len(path) - 1)
IsUnder(path, dir) ==
    Len(path) > Len(dir) /\ SubSeq(path, 1, Len(dir)) = dir
Relative(dir, path) == SubSeq(path, Len(dir) + 1, Len(path))

\* path.resolve(process.cwd(), directory)
TargetDir == Cwd \o options.directory

\* mutant: the first file is left out of the archive
createBackup_WithoutFirst(paths, baseDir) ==
    [kind |-> "archive",
     entries |-> [rel \in {Relative(Dirname(baseDir), paths[i]) :
                               i \in DOMAIN paths \ {1}}
                     |-> disk[Dirname(baseDir) \o rel]]]

\* createBackup: the archive holds the files under their paths relative to
\* the parent of baseDir
createBackup(paths, baseDir) ==
    [kind |-> "archive",
     entries |-> [rel \in {Relative(Dirname(baseDir), paths[i]) : i \in DOMAIN paths}
                     |-> disk[Dirname(baseDir) \o rel]]]

\* mutant: nothing is extracted
restoreBackup_Nothing(archive) == disk

\* restoreBackup: the archive is extracted below process.cwd()
restoreBackup(archive) ==
    [p \in DOMAIN disk \cup {Cwd \o rel : rel \in DOMAIN archive.entries} |->
        IF \E rel \in DOMAIN archive.entries : Cwd \o rel = p
        THEN archive.entries[Relative(Cwd, p)]
        ELSE disk[p]]

\* mutant: the failure of `git rev-parse` is not noticed
isGitRepository_Always(directory) == TRUE

\* isGitRepository: `git rev-parse --git-dir` succeeds in the directory
isGitRepository(directory) == repo.isRepository

\* removeCommand 146-165 and scanDirectory 127-176: the target directory
\* is looked up, the git context is set up and the files are listed
ScanBegin ==
    /\ pc = "start"
    /\ LET found == SelectSeq(<<TargetDir \o <<"a.js">>, TargetDir \o <<"b.js">>>>,
                              LAMBDA f : f \in DOMAIN disk)
           wantsGit == options.gitMine \/ options.gitUncommitted
           uncommittedFiles ==
               IF options.gitUncommitted THEN repo.status.files ELSE NULL
       IN  IF \/ found = <<>>
              \/ wantsGit /\ ~isGitRepository(TargetDir)
              \/ options.gitMine /\ ~repo.userConfigured
              \/ options.gitUncommitted /\ repo.status = GitFails
           THEN /\ pc' = "exit1"
                /\ error' =
                      IF found = <<>>
                      THEN Error("Directory not found", TargetDir)
                      ELSE IF ~isGitRepository(TargetDir)
                      THEN Error("Git filtering requested but directory is not a git repository", NULL)
                      ELSE IF options.gitMine /\ ~repo.userConfigured
                      THEN Error("Could not get git user. Make sure git is configured (git config user.email)", NULL)
                      ELSE Error("Could not get git status", NULL)
                /\ UNCHANGED <<files, scan, cacheVars>>
           ELSE /\ error' = error
                /\ queries' = queries
                /\ scan' = NewScan(IF wantsGit
                                   THEN ScanContext(options.gitMine,
                                                    options.gitUncommitted,
                                                    uncommittedFiles)
                                   ELSE NULL)
                /\ files' = IF options.gitUncommitted
                            THEN SelectSeq(found, LAMBDA f : f \in uncommittedFiles)
                            ELSE found
                /\ blameCache' = <<>>
                /\ uncommittedLinesCache' = <<>>
                /\ pc' = "scan"
    /\ UNCHANGED <<disk, envVars, scanIdx, answers, filesToModify, backupPath,
                   callVars, idx, totalRemoved, results, written, oracle>>

\* scanDirectory 179-200: one turn of the loop over the files
ScanLoop ==
    /\ pc = "scan"
    /\ scanIdx <= Len(files)
    /\ LET acc == ScanFileInto([results |-> scan, blameCache |-> blameCache,
                                uncommittedLinesCache |-> uncommittedLinesCache],
                               files[scanIdx], disk[files[scanIdx]])
       IN  /\ scan' = acc.results
           /\ blameCache' = acc.blameCache
           /\ uncommittedLinesCache' = acc.uncommittedLinesCache
           /\ queries' = QueriesAfter(queries,
                              [blameCache |-> blameCache,
                               uncommittedLinesCache |-> uncommittedLinesCache],
                              acc)
    /\ scanIdx' = scanIdx + 1
    /\ UNCHANGED <<disk, envVars, files, answers, filesToModify, backupPath,
                   callVars, runVars, oracle>>

\* scanDirectory returns; removeCommand 167-177 ends when nothing was found
ScanEnd ==
    /\ pc = "scan"
    /\ scanIdx > Len(files)
    /\ pc' = IF scan.totalCount = 0 THEN "done" ELSE "prompt"
    /\ UNCHANGED <<disk, envVars, cliVars, callVars, cacheVars, idx,
                   totalRemoved, results, written, error, oracle>>

\* removeCommand 286-305: the files with a statement to remove
FilesToModify(byFile, methods, skipSideEffects) ==
    SelectSeq(files, LAMBDA f :
        /\ f \in DOMAIN byFile
        /\ \E i \in DOMAIN byFile[f].statements :
              LET stmt == byFile[f].statements[i]
              IN  /\ stmt.method \in methods
                  /\ ~(skipSideEffects /\ stmt.hasSideEffects))

RECURSIVE StatementsToRemove(_, _, _, _)
\* removeCommand 279-305: statementsToRemove, the statements of the scan
\* with a selected method, less those with side effects when they are to
\* be skipped, summed over the files `over` of the report
StatementsToRemove(byFile, over, methods, skipSideEffects) ==
    IF over = {} THEN 0
    ELSE LET f == CHOOSE g \in over : TRUE
             inFile == {i \in DOMAIN byFile[f].statements :
                          LET stmt == byFile[f].statements[i]
                          IN  /\ stmt.method \in methods
                              /\ ~(skipSideEffects /\ stmt.hasSideEffects)}
         IN  Cardinality(inFile)
             + StatementsToRemove(byFile, over \ {f}, methods, skipSideEffects)

\* removeCommand 179-305: the methods found are offered (at least one is
\* to be chosen), the handling of side effects is asked if a statement
\* has any, and the files to modify are worked out
Prompt ==
    /\ pc = "prompt"
    /\ LET found == {m \in KnownMethods : scan.byMethod[m].count > 0}
           sideEffects ==
               \E f \in DOMAIN scan.byFile :
                   \E i \in DOMAIN scan.byFile[f].statements :
                       scan.byFile[f].statements[i].hasSideEffects
       IN  \E methods \in SUBSET found \ {{}},
              handling \in IF sideEffects THEN {"skip", "remove"}
                           ELSE {"undefined"} :
              /\ answers' = [answers EXCEPT !.methods = methods,
                                            !.sideEffectsHandling = handling]
              /\ filesToModify' =
                    FilesToModify(scan.byFile, methods, handling = "skip")
    /\ pc' = "confirm"
    /\ UNCHANGED <<disk, envVars, files, scan, scanIdx, backupPath, callVars,
                   cacheVars, idx, totalRemoved, results, written, error, oracle>>

\* mutant: the answer to the confirmation is not looked at
Cancelled_Never(proceed) == FALSE

\* if (!confirmAnswer.proceed): the operation is cancelled
Cancelled(proceed) == ~proceed

\* removeCommand 334-389: the user confirms or cancels; a backup is made if
\* asked for and not in a dry run (tarOk: tar.create succeeds); the
\* remover's git context is built and removeConsoleStatements is called
Confirm ==
    /\ pc = "confirm"
    /\ \E proceed \in BOOLEAN, tarOk \in BOOLEAN :
          LET wantsBackup == options.backup /\ ~options.dryRun
              skip == answers.sideEffectsHandling = "skip"
          IN  /\ answers' = [answers EXCEPT !.proceed = <<proceed>>]
              /\ IF Cancelled(proceed) \/ (wantsBackup /\ ~tarOk)
                 THEN /\ pc' = "done"
                      /\ UNCHANGED <<backupPath, callVars, cacheVars, idx,
                                     totalRemoved>>
                 ELSE /\ backupPath' = IF wantsBackup
                                       THEN createBackup(filesToModify, TargetDir)
                                       ELSE NULL
                      /\ gitContext' =
                            IF options.gitMine \/ options.gitUncommitted \/ skip
                            THEN Context(options.gitMine, options.gitUncommitted, skip)
                            ELSE NULL
                      /\ blameCache' = <<>>
                      /\ uncommittedLinesCache' = <<>>
                      /\ queries' = queries
                      /\ filePaths' = filesToModify
                      /\ methodsToRemove' = answers.methods
                      /\ dryRun' = options.dryRun
                      /\ idx' = 1
                      /\ totalRemoved' = 0
                      /\ pc' = "loop"
    /\ UNCHANGED <<disk, envVars, files, scan, scanIdx, filesToModify,
                   results, written, error, oracle>>

\* removeCommand 401-412: removeConsoleStatements threw; the backup, if
\* there is one, is restored and the process exits with 1
RemovalFailed ==
    /\ pc = "threw"
    /\ disk' = IF backupPath # NULL THEN restoreBackup(backupPath) ELSE disk
    /\ pc' = "exit1"
    /\ UNCHANGED <<envVars, cliVars, callVars, cacheVars, idx, totalRemoved,
                   results, written, error, oracle>>

\* --- inputs
\* a program with a statement of each given kind, a statement per line
Lines(kinds) == [i \in DOMAIN kinds |-> Statement(kinds[i], i)]

\* the contents a file of the project may have
ProjectSources ==
    {SourceText("ok", Lines(<<"log", "warn_init">>)),
     SourceText("ok", Lines(<<"log_incr", "log">>)),
     SourceText("ok", Lines(<<"shadow_fn", "nested">>)),
     SourceText("ok", Lines(<<"foo">>)),
     SourceText("ok", Lines(<<"nested_init">>)),
     SourceText("recoverable", Lines(<<"log">>)),
     SourceText("fatal", <<>>)}

\* what git says about one file: its blame and its diff
\*   a tracked file with line 2 modified, line 1 mine and line 2 not;
\*   a new file, not tracked yet;
\*   a tracked file without changes
GitFileStates ==
    {[blame |-> GitPrints(<<BlameHeader(1), BlameAuthorMail(Me), BlameOther,
                            BlameHeader(2), BlameAuthorMail(Other), BlameOther>>),
      diff |-> GitDiff(GitPrints(<<DiffText, DiffHunk(2, FALSE, 0), DiffText>>), TRUE)],
     [blame |-> GitFails,
      diff |-> GitDiff(GitPrints(<<>>), FALSE)],
     [blame |-> GitPrints(<<BlameHeader(1), BlameAuthorMail(Me), BlameOther,
                            BlameHeader(2), BlameAuthorMail(Other), BlameOther>>),
      diff |-> GitDiff(GitPrints(<<>>), TRUE)]}

\* `git status --porcelain` lists the untracked and the modified files
InStatus(fileState) ==
    \/ ~fileState.diff.tracked
    \/ fileState.diff.diff.status = "ok" /\ fileState.diff.diff.output # <<>>

ProjectFiles(directory) ==
    {Cwd \o directory \o <<"a.js">>, Cwd \o directory \o <<"b.js">>}

\* the command lines: every combination of the four flags, run in the
\* project's directory (".") or in its parent ("src")
CommandLines ==
    {[directory |-> d, gitMine |-> m, gitUncommitted |-> u, backup |-> b,
      dryRun |-> r] :
        d \in {<<>>, <<"src">>}, m \in BOOLEAN, u \in BOOLEAN, b \in BOOLEAN,
        r \in BOOLEAN}

\* log-sweep remove <directory> [flags] is started in a project of two files
InitRun ==
    /\ options \in CommandLines
    /\ disk \in [ProjectFiles(options.directory) -> ProjectSources]
    /\ \E state \in [ProjectFiles(options.directory) -> GitFileStates] :
          /\ options.gitMine \/ options.gitUncommitted
             \/ \A f \in DOMAIN state :
                   state[f] = CHOOSE g \in GitFileStates : g.blame = GitFails
          /\ gitBlame = [f \in DOMAIN state |-> state[f].blame]
          /\ gitDiff = [f \in DOMAIN state |-> state[f].diff]
          /\ repo = [isRepository |-> TRUE, userConfigured |-> TRUE,
                    status |-> [status |-> "ok",
                                files |-> {f \in DOMAIN state : InStatus(state[f])}]]

\* the same started with a git filter where it cannot run: a directory
\* that does not exist, no repository (with or without a user.email in the
\* global configuration), no user.email, a failing `git status`
InitBroken ==
    /\ \E d \in {<<"missing">>, <<"src">>}, m \in BOOLEAN, u \in BOOLEAN :
          /\ m \/ u
          /\ options = [directory |-> d, gitMine |-> m, gitUncommitted |-> u,
                        backup |-> TRUE, dryRun |-> FALSE]
    /\ disk = [f \in ProjectFiles(<<"src">>) |-> SourceText("ok", Lines(<<"log">>))]
    /\ gitBlame = [f \in DOMAIN disk |-> GitFails]
    /\ gitDiff = [f \in DOMAIN disk |-> GitDiff(GitFails, TRUE)]
    /\ repo \in {[isRepository |-> FALSE, userConfigured |-> FALSE, status |-> GitFails],
                [isRepository |-> FALSE, userConfigured |-> TRUE, status |-> GitFails],
                [isRepository |-> TRUE, userConfigured |-> FALSE, status |-> GitFails],
                [isRepository |-> TRUE, userConfigured |-> TRUE, status |-> GitFails]}

Init ==
    /\ InitRun \/ InitBroken
    /\ disk0 = disk
    /\ files = <<>>
    /\ scan = NULL
    /\ scanIdx = 1
    /\ answers = NoAnswers
    /\ filesToModify = <<>>
    /\ backupPath = NULL
    /\ filePaths = <<>>
    /\ methodsToRemove = {}
    /\ dryRun = FALSE
    /\ gitContext = NULL
    /\ blameCache = <<>>
    /\ uncommittedLinesCache = <<>>
    /\ idx = 1
    /\ totalRemoved = 0
    /\ pc = "start"
    /\ results = <<>>
    /\ written = <<>>
    /\ error = NULL
    /\ queries = <<>>
    /\ traverseDefault = "function"
    /\ oracle = NULL

Next ==
    \/ ScanBegin
    \/ ScanLoop
    \/ ScanEnd
    \/ Prompt
    \/ Confirm
    \/ RemoveLoop
    \/ RemoveReturn
    \/ RemovalFailed

Spec == Init /\ [][Next]_vars

\* ----------------------------------------------------------------- claims
\* the visitor removed the call (deleted its statement or replaced it)
Removed(v) == v.outcome \in {"statement_removed", "replaced"}

\* the call's receiver is the identifier `console`
IsConsoleReceiver(node) ==
    /\ node.callee.type \in {"MemberExpression", "OptionalMemberExpression"}
    /\ node.callee.object = Console

\* the method a callee names, as .m or ['m']; "" when it names none
CalleeMethod(callee) ==
    IF callee.property.type = "Identifier" /\ ~callee.computed
    THEN callee.property.name
    ELSE IF callee.property.type = "StringLiteral" /\ callee.computed
         THEN callee.property.value
         ELSE ""

\* The five predicates of eligibility for the call `node` of file f, with
\* `shadowed` telling whether `console` is bound in a scope around it. The
\* oracles are asked afresh, not through the caches.
Eligible(node, shadowed, f) ==
    LET g == gitContext
        line == node.loc.start.line
    IN  /\ CalleeMethod(node.callee) \in methodsToRemove
        /\ ~shadowed
        /\ ~(g # NULL /\ g.skipSideEffects /\ detectSideEffects(node.arguments))
        /\ \/ g = NULL
           \/ ~g.filterMine
           \/ LineByCurrentUser(getFileBlame(gitBlame[f]), line, g.currentUser.email)
        /\ \/ g = NULL
           \/ ~g.filterUncommitted
           \/ isLineUncommitted(line, getUncommittedLines(gitDiff[f]))

OwnCallEligible(call, body, f) ==
    /\ call.type = "CallExpression"
    /\ IsConsoleReceiver(call)
    /\ Eligible(call, "console" \in DeclaredIn(body), f)

\* C7: an eligible call that is an expression statement's expression goes
\* with its whole statement, and the other statements stay in their order;
\* an eligible call in another place (an initialiser, an argument) becomes
\* the identifier `undefined` and the expression around it is kept; each
\* removal adds exactly 1 to removedCount.
C7_StatementOrPlaceholder ==
    \A f \in DOMAIN results :
        LET r == results[f]
            body == disk0[f].body
            out == r.code.body
            Gone(s) == /\ s.type = "ExpressionStatement"
                       /\ OwnCallEligible(s.expression, body, f)
            stay == SelectSeq(body, LAMBDA s : ~Gone(s))
        IN  ~r.threw =>
              /\ [i \in DOMAIN out |-> out[i].line] = [i \in DOMAIN stay |-> stay[i].line]
              /\ \A i \in DOMAIN stay :
                    /\ stay[i].type = "VariableDeclaration"
                       /\ OwnCallEligible(stay[i].init, body, f)
                       => out[i] = [stay[i] EXCEPT !.init = Identifier("undefined")]
                    /\ stay[i].type = "ExpressionStatement"
                       /\ stay[i].expression.type = "CallExpression"
                       => \A k \in DOMAIN stay[i].expression.arguments :
                            OwnCallEligible(stay[i].expression.arguments[k], body, f)
                            => /\ out[i].expression.arguments[k] = Identifier("undefined")
                               /\ out[i].expression.callee = stay[i].expression.callee
              /\ r.removedCount =
                    Cardinality({i \in DOMAIN r.visits : Removed(r.visits[i])})

\* C7 witness: one call went with its statement, another was replaced, and
\* a statement is left
C7_Witness ==
    \E f \in DOMAIN results :
        /\ ~results[f].threw
        /\ results[f].removedCount >= 2
        /\ Len(results[f].code.body) >= 1
        /\ \E i, j \in DOMAIN results[f].visits :
              /\ results[f].visits[i].outcome = "statement_removed"
              /\ results[f].visits[j].outcome = "replaced"

\* C8: removeConsoleStatements writes a file only if a call was removed from
\* it; a file with no removal is reported unmodified and its content on
\* disk is what it was.
C8_WriteOnlyIfRemoved ==
    \A f \in DOMAIN results :
        /\ (\E i \in DOMAIN written : written[i] = f) => results[f].removedCount > 0
        /\ results[f].removedCount = 0 =>
              /\ ~results[f].modified
              /\ disk[f] = disk0[f]

\* C8 witness: a real run went over a file with console calls and removed
\* none
C8_Witness ==
    \E f \in DOMAIN results :
        /\ ~dryRun
        /\ pc = "returned"
        /\ results[f].removedCount = 0
        /\ \E i \in DOMAIN results[f].visits :
              IsConsoleReceiver(results[f].visits[i].node)

\* C3 (as claimed): with the author filter on and the blame query failing,
\* or with the uncommitted filter on and the diff query failing, no call
\* site of the file is removed.
C3_FailedOracleExcludes ==
    \A f \in DOMAIN results :
        LET failed ==
                gitContext # NULL
                /\ \/ gitContext.filterMine /\ gitBlame[f].status = "error"
                   \/ gitContext.filterUncommitted /\ gitDiff[f].diff.status = "error"
        IN  failed => \A i \in DOMAIN results[f].visits : ~Removed(results[f].visits[i])

\* the last helper call was fn
Asked(fn) == oracle # NULL /\ oracle.fn = fn

\* C4: for a file with no blame result (getFileBlame gives null)
\* isLineByCurrentUser is true for every line and every e-mail.
C4_NoBlameAllMine ==
    Asked("isLineByCurrentUser") /\ getFileBlame(gitBlame[oracle.filePath]) = NULL
        => oracle.value

\* C4 witness: the blame query failed and a line was asked for another user
C4_Witness ==
    /\ Asked("isLineByCurrentUser")
    /\ gitBlame[oracle.filePath].status = "error"
    /\ oracle.email = Other
    /\ oracle.value

\* the diff query printed nothing but white space
EmptyDiff(git) ==
    /\ git.diff.status = "ok"
    /\ \A i \in DOMAIN git.diff.output : git.diff.output[i] = DiffBlank

\* C5: an empty diff gives 'all' for an untracked file and null for a
\* tracked one; isLineUncommitted is true under 'all', false under null and
\* set membership otherwise.
C5_EmptyDiffSentinels ==
    Asked("isLineUncommitted") =>
        LET git == gitDiff[oracle.filePath]
            lines == uncommittedLinesCache[oracle.filePath]
        IN  /\ EmptyDiff(git) => lines = (IF git.tracked THEN NULL ELSE ALL)
            /\ lines = ALL => oracle.value
            /\ lines = NULL => ~oracle.value
            /\ lines \notin {ALL, NULL} =>
                  (oracle.value <=> oracle.lineNumber \in lines.lines)

\* C5 witness: a white-space diff of an untracked file, every line uncommitted
C5_Witness ==
    /\ Asked("isLineUncommitted")
    /\ gitDiff[oracle.filePath] = GitDiff(GitPrints(<<DiffBlank>>), FALSE)
    /\ uncommittedLinesCache[oracle.filePath] = ALL
    /\ oracle.value

\* the lines a hunk header "+s[,c]" stands for: s .. s+c-1, c = 1 if omitted
HunkSpan(h) == h.newStart .. (h.newStart + (IF h.hasCount THEN h.newCount ELSE 1) - 1)

\* C6: the uncommitted line set is the union over the diff's hunk headers
\* of s .. s+c-1 and nothing else; "+12,3" alone gives {12, 13, 14}, which
\* line 13 is in and line 9 is not.
C6_HunkUnion ==
    Asked("isLineUncommitted") =>
        LET git == gitDiff[oracle.filePath]
            lines == uncommittedLinesCache[oracle.filePath]
            hunks == {i \in DOMAIN git.diff.output : git.diff.output[i].kind = "hunk"}
        IN  git.diff.status = "ok" /\ ~EmptyDiff(git) =>
              /\ lines = LineSet(UNION {HunkSpan(git.diff.output[i]) : i \in hunks})
              /\ {git.diff.output[i] : i \in hunks} = {DiffHunk(12, TRUE, 3)} =>
                    /\ lines.lines = {12, 13, 14}
                    /\ oracle.lineNumber = 13 => oracle.value
                    /\ oracle.lineNumber = 9 => ~oracle.value

\* C6 witness: two hunks, one of them "+12,3", and line 13 passes
C6_Witness ==
    /\ Asked("isLineUncommitted")
    /\ gitDiff[oracle.filePath].diff =
          GitPrints(<<DiffHunk(1, FALSE, 0), DiffHunk(12, TRUE, 3)>>)
    /\ uncommittedLinesCache[oracle.filePath].lines = {1, 12, 13, 14}
    /\ oracle.lineNumber = 13
    /\ oracle.value

RunFromStart(dry) ==
    removeConsoleStatements(
        [disk |-> disk0, blameCache |-> <<>>, uncommittedLinesCache |-> <<>>,
         totalRemoved |-> 0, written |-> <<>>, threw |-> FALSE],
        filePaths, methodsToRemove, dry, gitContext)

\* C9: in a dry run removeConsoleStatements writes no file and the command
\* makes no backup, and the count the dry run returns is the count the real
\* run returns on the same files, selection and git context.
C9_DryRunFrame ==
    options.dryRun =>
        /\ backupPath = NULL
        /\ written = <<>>
        /\ disk = disk0
        /\ pc = "returned" =>
              /\ ~RunFromStart(FALSE).threw
              /\ totalRemoved = RunFromStart(FALSE).totalRemoved

\* C9 witness: a dry run with --backup returned after going over two files
\* with calls to remove, which the real run writes
C9_Witness ==
    /\ options.dryRun
    /\ options.backup
    /\ pc = "returned"
    /\ Len(filePaths) = 2
    /\ totalRemoved >= 2
    /\ Len(RunFromStart(FALSE).written) = 2

\* what scanDirectory returns of its results
ScanView(r) ==
    [totalCount |-> r.totalCount, fileCount |-> r.fileCount,
     byMethod |-> r.byMethod, byFile |-> r.byFile]

RECURSIVE ScanOver(_, _)
\* scanDirectory's loop over the given files, with the content before the run
ScanOver(acc, paths) ==
    IF paths = <<>> THEN acc
    ELSE ScanOver(ScanFileInto(acc, Head(paths), disk0[Head(paths)]), Tail(paths))

\* C10: a file that cannot be parsed does not end the scan and adds nothing
\* to byFile, fileCount, totalCount or byMethod: at every point of the loop
\* the results are those of a scan of the files gone over without the
\* failing ones.
C10_UnparsableSkipped ==
    scan # NULL =>
        LET done == SubSeq(files, 1, scanIdx - 1)
            Fails(f) == disk0[f].syntax = "fatal"
            others == SelectSeq(done, LAMBDA f : ~Fails(f))
            expected == ScanOver([results |-> NewScan(scan.gitContext),
                                  blameCache |-> <<>>,
                                  uncommittedLinesCache |-> <<>>], others)
        IN  /\ ScanView(scan) = ScanView(expected.results)
            /\ \A i \in DOMAIN done :
                  Fails(done[i]) =>
                      /\ done[i] \notin DOMAIN scan.byFile
                      /\ \A m \in KnownMethods :
                            \A k \in DOMAIN scan.byMethod[m].files :
                                scan.byMethod[m].files[k] # done[i]
            \* and the command goes on: it fails in the removal only
            /\ pc = "exit1" => results # <<>>

\* C10 witness: the first file failed to parse and the scan went on to
\* report the second
C10_Witness ==
    /\ scan # NULL
    /\ Len(files) = 2
    /\ scanIdx = 3
    /\ disk0[files[1]].syntax = "fatal"
    /\ files[2] \in DOMAIN scan.byFile
    /\ scan.fileCount = 1
    /\ scan.totalCount = 2

\* C11: in the removal a file that cannot be parsed does not end the run:
\* when removeConsoleStatements has ended, by a return or by a throw, every
\* file it was given has been handed to removeFromSource.
C11_EveryFileProcessed ==
    pc \in {"returned", "threw", "exit1"} =>
        \A i \in DOMAIN filePaths : filePaths[i] \in DOMAIN results

\* the target directory exists: the command gets as far as scanDirectory
DirectoryExists == \E f \in DOMAIN disk : IsUnder(f, TargetDir)

\* C12: with --git-mine or --git-uncommitted in a directory that is not a
\* git repository, scanDirectory fails with the configuration error before
\* anything else: no file is discovered, none is scanned, git is not asked
\* about any, none is handed to the remover or written.
C12_NoRepositoryFailsFirst ==
    /\ options.gitMine \/ options.gitUncommitted
    /\ ~repo.isRepository
    /\ DirectoryExists
    /\ pc # "start"
    => /\ pc = "exit1"
       /\ error = Error("Git filtering requested but directory is not a git repository", NULL)
       /\ files = <<>>
       /\ scan = NULL
       /\ queries = <<>>
       /\ results = <<>>
       /\ written = <<>>
       /\ disk = disk0

\* C12 witness: --git-mine alone, outside a repository, with a user.email
\* that git knows all the same; the command has ended
C12_Witness ==
    /\ options.gitMine
    /\ ~options.gitUncommitted
    /\ ~repo.isRepository
    /\ repo.userConfigured
    /\ DirectoryExists
    /\ pc = "exit1"

\* C13: when removeConsoleStatements fails at the k-th file nothing is
\* rolled back: each file before it in which calls were removed holds its
\* rewritten content (in a run that writes), every other file, the k-th and
\* the later ones among them, holds the content it had, and the error
\* names the k-th file.
C13_NoRollback ==
    pc = "threw" =>
        /\ idx \in DOMAIN filePaths
        /\ error = Error("Failed to process", filePaths[idx])
        /\ \A f \in DOMAIN disk :
              IF /\ ~dryRun
                 /\ \E i \in 1..(idx - 1) : filePaths[i] = f
                 /\ results[f].removedCount > 0
              THEN /\ disk[f] = results[f].code
                   /\ disk[f] # disk0[f]
              ELSE disk[f] = disk0[f]

\* C13 witness: the second of two files failed after the first was
\* rewritten
C13_Witness ==
    /\ pc = "threw"
    /\ idx = 2
    /\ ~dryRun
    /\ results[filePaths[1]].removedCount > 0
    /\ disk[filePaths[1]] # disk0[filePaths[1]]
    /\ error.filePath = filePaths[2]

\* C14: when the removal fails, the next step of the remove command is the
\* exit, and before it the backup, if one was made (--backup and no dry
\* run), is restored: each entry of the archive is on disk, under the
\* working directory, with its content of the archive. Without a backup
\* nothing is restored: the disk stays as the removal left it.
C14_RestoreOnFailure ==
    [][pc = "threw" =>
          /\ pc' = "exit1"
          /\ IF options.backup /\ ~options.dryRun
             THEN /\ backupPath # NULL
                  /\ \A rel \in DOMAIN backupPath.entries :
                        /\ Cwd \o rel \in DOMAIN disk'
                        /\ disk'[Cwd \o rel] = backupPath.entries[rel]
             ELSE /\ backupPath = NULL
                  /\ disk' = disk]_vars

\* C14 witness: the removal failed after a file was rewritten, with a
\* backup, and the command ended with the file's first content back
C14_Witness ==
    /\ pc = "exit1"
    /\ backupPath # NULL
    /\ written # <<>>
    /\ results[written[1]].code # disk0[written[1]]
    /\ disk[written[1]] = disk0[written[1]]

\* C15: within one run of the remove command, the scan and the removal
\* together, git is asked for the blame of a file at most once and for its
\* diff at most once, whether the query succeeded or failed.
C15_OneQueryPerFile ==
    \A k \in DOMAIN queries : queries[k] <= 1

\* C16: removeFromSource is idempotent: applied to its own output, with the
\* same methods, file path and git context (its caches as the first call
\* left them), it removes nothing: removedCount is 0, modified is false and
\* the code comes back as it went in.
C16_Idempotent ==
    pc = "returned" =>
        \A f \in DOMAIN results :
            LET again == removeFromSource(results[f].code, methodsToRemove,
                            f, gitContext,
                            [blameCache |-> results[f].blameCache,
                             uncommittedLinesCache |-> results[f].uncommittedLinesCache])
            IN  /\ ~again.threw
                /\ again.removedCount = 0
                /\ ~again.modified
                /\ again.code = results[f].code

\* C16 witness: the first call removed a call and left another console
\* call in its output, which the second call comes to
C16_Witness ==
    /\ pc = "returned"
    /\ SrcFile \in DOMAIN results
    /\ results[SrcFile].removedCount > 0
    /\ LET again == removeFromSource(results[SrcFile].code, methodsToRemove,
                                     SrcFile, gitContext, NewCaches)
       IN  \E i \in DOMAIN again.visits :
              again.visits[i].outcome \notin {"not_console_call"}

RECURSIVE CallsIn(_)
\* the places (line and column) of the calls in a list of nodes, at any
\* depth
CallsIn(nodes) ==
    IF nodes = <<>> THEN {}
    ELSE LET n == Head(nodes)
         IN  (IF n.type \in {"CallExpression", "OptionalCallExpression"}
              THEN {n.loc.start} ELSE {})
             \cup CallsIn(ChildNodes(n))
             \cup CallsIn(Tail(nodes))

\* the calls of `before` that are not in `after`
RemovedSites(before, after) == CallsIn(before.body) \ CallsIn(after.body)

\* the places of the statements a scan reported
ReportedSites(statements) ==
    {[line |-> statements[i].line, column |-> statements[i].column] :
        i \in DOMAIN statements}

\* the contexts with one of g's filters turned off
Weaker(g) ==
    {Context(FALSE, g.filterUncommitted, g.skipSideEffects),
     Context(g.filterMine, FALSE, g.skipSideEffects),
     Context(g.filterMine, g.filterUncommitted, FALSE)} \ {g}

RECURSIVE Subtree(_)
\* a node and all the nodes below it
Subtree(n) ==
    {n} \cup UNION {Subtree(ChildNodes(n)[i]) : i \in DOMAIN ChildNodes(n)}

\* C18: detectSideEffects(args) returns true exactly when the subtree of
\* some argument holds, at any depth and inside function bodies too, an
\* update, an assignment, an await or a yield; so it returns false for no
\* argument and for literals and reads.
C18_SideEffectsExactly ==
    oracle # NULL =>
        /\ ~oracle.result.threw
        /\ oracle.result.value =
              (\E i \in DOMAIN oracle.args :
                  \E n \in Subtree(oracle.args[i]) :
                      n.type \in {"UpdateExpression", "AssignmentExpression",
                                  "AwaitExpression", "YieldExpression"})

RECURSIVE SitesIn(_, _)
\* the call sites in a list of nodes, at any depth: the calls on `console`
\* that a CallExpression visitor is called for, each with whether a scope
\* around it binds `console`
SitesIn(nodes, bindings) ==
    IF nodes = <<>> THEN {}
    ELSE LET n == Head(nodes)
         IN  (IF n.type = "CallExpression" /\ IsConsoleReceiver(n)
              THEN {[node |-> n, shadowed |-> hasBinding(bindings, "console")]}
              ELSE {})
             \cup SitesIn(ChildNodes(n), bindings \cup ScopeBindings(n))
             \cup SitesIn(Tail(nodes), bindings)

\* C19: every call site of the file ends in exactly one final state. An
\* eligible site is removed, it is not in the output, and counted once:
\* removedCount is the number of eligible sites. Any other site is skipped
\* and retained: it is in the output still.
C19_OneFinalState ==
    /\ SrcFile \in DOMAIN results
    /\ ~results[SrcFile].threw
    => LET sites == SitesIn(disk0[SrcFile].body, DeclaredIn(disk0[SrcFile].body))
           eligible == {c \in sites : Eligible(c.node, c.shadowed, SrcFile)}
           left == CallsIn(results[SrcFile].code.body)
       IN  /\ results[SrcFile].removedCount = Cardinality(eligible)
           /\ \A c \in eligible : c.node.loc.start \notin left
           /\ \A c \in sites \ eligible : c.node.loc.start \in left

\* the visitor was called for the node and took it for a console call
Recognized(visits, node) ==
    \E i \in DOMAIN visits :
        /\ visits[i].node = node
        /\ visits[i].outcome # "not_console_call"

\* C20: a call on the global `console` is recognized by the scanner and by
\* the remover in each of the forms console.m(), console?.m() and
\* console['m'](), and never with a computed key that is not a string
\* literal. Stated for the calls that are a statement of the program, m
\* being a method the scanner knows and the remover is to remove.
C20_ThreeForms ==
    /\ SrcFile \in DOMAIN results
    /\ ~results[SrcFile].threw
    => LET body == disk0[SrcFile].body
       IN  \A i \in DOMAIN body :
              /\ body[i].type = "ExpressionStatement"
              /\ body[i].expression.type \in {"CallExpression", "OptionalCallExpression"}
              /\ IsConsoleReceiver(body[i].expression)
              /\ ~hasBinding(DeclaredIn(body), "console")
              => LET call == body[i].expression
                     m == CalleeMethod(call.callee)
                 IN  /\ m \in KnownMethods =>
                            Recognized(scan.byFile[SrcFile].visits, call)
                     /\ m \in methodsToRemove =>
                            Recognized(results[SrcFile].visits, call)
                     /\ m = "" =>
                            /\ ~Recognized(scan.byFile[SrcFile].visits, call)
                            /\ ~Recognized(results[SrcFile].visits, call)

\* C21: a call console.m(...) with m outside the catalog of the 22 known
\* console methods is never reported by the scanner and never removed by
\* the remover, whatever methods the remover is given.
C21_UnknownMethodUntouched ==
    /\ scan # NULL =>
          \A f \in DOMAIN scan.byFile :
              \A i \in DOMAIN scan.byFile[f].visits :
                  LET v == scan.byFile[f].visits[i]
                  IN  /\ IsConsoleReceiver(v.node)
                      /\ CalleeMethod(v.node.callee) \notin KnownMethods
                      => v.outcome # "reported"
    /\ \A f \in DOMAIN results :
          \A i \in DOMAIN results[f].visits :
              LET v == results[f].visits[i]
              IN  /\ IsConsoleReceiver(v.node)
                  /\ CalleeMethod(v.node.callee) \notin KnownMethods
                  => ~Removed(v)

RECURSIVE SumCounts(_, _)
\* the sum of map[k].count over the keys
SumCounts(map, keys) ==
    IF keys = {} THEN 0
    ELSE LET k == CHOOSE x \in keys : TRUE
         IN  map[k].count + SumCounts(map, keys \ {k})

\* C22: at every point of scanDirectory's loop and in the report it
\* returns, totalCount is the sum of the files' counts and the sum of the
\* methods' counts, fileCount is the number of entries of byFile, every
\* entry of byFile has a statement, and byMethod[m].files holds, once each,
\* exactly the files with a reported statement of method m.
C22_ReportConsistent ==
    scan # NULL =>
        /\ scan.totalCount = SumCounts(scan.byFile, DOMAIN scan.byFile)
        /\ scan.totalCount = SumCounts(scan.byMethod, DOMAIN scan.byMethod)
        /\ scan.fileCount = Cardinality(DOMAIN scan.byFile)
        /\ \A f \in DOMAIN scan.byFile :
              /\ scan.byFile[f].count >= 1
              /\ scan.byFile[f].count = Len(scan.byFile[f].statements)
        /\ \A m \in DOMAIN scan.byMethod :
              LET listed == scan.byMethod[m].files
              IN  /\ {listed[i] : i \in DOMAIN listed} =
                        {f \in DOMAIN scan.byFile :
                            \E i \in DOMAIN scan.byFile[f].statements :
                                scan.byFile[f].statements[i].method = m}
                  /\ \A i, j \in DOMAIN listed : listed[i] = listed[j] => i = j

\* C22 witness: two files were scanned, one with two statements of one
\* method, and a method was found in both
C22_Witness ==
    /\ scan # NULL
    /\ scan.fileCount = 2
    /\ scan.totalCount >= 3
    /\ \E m \in DOMAIN scan.byMethod :
          /\ Len(scan.byMethod[m].files) = 2
          /\ scan.byMethod[m].count >= 3

\* C23: in a run with --backup and without --dry-run the backup comes
\* before any write: while there is no backup no file is written or
\* changed (so none is when createBackup fails), and once the removal has
\* begun every file handed to removeConsoleStatements is in the archive
\* with the content it had before the run.
C23_BackupBeforeWrite ==
    options.backup /\ ~options.dryRun =>
        /\ backupPath = NULL => written = <<>> /\ disk = disk0
        /\ pc \in {"loop", "threw", "returned"} =>
              /\ backupPath # NULL
              /\ \A i \in DOMAIN filePaths :
                    LET rel == Relative(Dirname(TargetDir), filePaths[i])
                    IN  /\ rel \in DOMAIN backupPath.entries
                        /\ backupPath.entries[rel] = disk0[filePaths[i]]

\* C23 witness: with a backup two files were rewritten
C23_Witness ==
    /\ options.backup
    /\ ~options.dryRun
    /\ pc = "returned"
    /\ backupPath # NULL
    /\ Len(written) = 2
    /\ \A i \in DOMAIN written : disk[written[i]] # disk0[written[i]]


\* C24: no file is written and no backup is created unless the user answered
\* yes to the final confirmation; when the scan found no console statement or
\* the confirmation was declined, the command ends with every file unchanged.
C24_NothingWithoutYes ==
    /\ (written # <<>> \/ backupPath # NULL \/ disk # disk0)
          => answers.proceed = <<TRUE>>
    /\ /\ pc = "done"
       /\ scan # NULL
       /\ scan.totalCount = 0 \/ answers.proceed = <<FALSE>>
       => /\ disk = disk0
          /\ written = <<>>
          /\ backupPath = NULL

\* a run with files to modify, a backup asked for and no dry run, declined
C24_Witness ==
    /\ pc = "done"
    /\ answers.proceed = <<FALSE>>
    /\ filesToModify # <<>>
    /\ options.backup
    /\ ~options.dryRun
    /\ disk = disk0


\* C25: the backup round trip: after createBackup(files, baseDir), the
\* writes of the removal and restoreBackup(backupPath), every file of the
\* backup is at its first location with the content the backup took, for
\* every base directory.
C25_BackupRoundTrip ==
    pc = "exit1" /\ backupPath # NULL =>
        \A i \in DOMAIN filePaths :
            /\ filePaths[i] \in DOMAIN disk
            /\ disk[filePaths[i]] = disk0[filePaths[i]]


\* the nodes of a program, at any depth
NodesOf(body) == UNION {Subtree(body[i]) : i \in DOMAIN body}

\* C26: removeFromSource changes nothing except the eligible call sites:
\* every skipped call site (method not selected, shadowed, side-effect
\* policy, author or uncommitted filter) is in the output with its callee
\* and its whole arguments as they were, and every statement that holds no
\* console call site is in the output as it was.
C26_FrameOfRemoval ==
    /\ pc = "returned"
    /\ SrcFile \in DOMAIN results
    /\ ~results[SrcFile].threw
    => LET body == disk0[SrcFile].body
           out == results[SrcFile].code.body
           sites == SitesIn(body, DeclaredIn(body))
           eligible == {c \in sites : Eligible(c.node, c.shadowed, SrcFile)}
       IN  /\ \A c \in sites \ eligible :
                 \E n \in NodesOf(out) :
                     /\ n.type = "CallExpression"
                     /\ n.loc = c.node.loc
                     /\ n.callee = c.node.callee
                     /\ n.arguments = c.node.arguments
           /\ \A i \in DOMAIN body :
                 SitesIn(<<body[i]>>, DeclaredIn(body)) = {}
                 => \E j \in DOMAIN out : out[j] = body[i]


\* removeConsoleStatements over the run's files listed in the opposite
\* order, with the run's selection, flag and git context, from the content
\* before the run and new caches
RunReversed ==
    removeConsoleStatements(
        [disk |-> disk0, blameCache |-> <<>>, uncommittedLinesCache |-> <<>>,
         totalRemoved |-> 0, written |-> <<>>, threw |-> FALSE],
        [i \in DOMAIN filePaths |-> filePaths[Len(filePaths) + 1 - i]],
        methodsToRemove, dryRun, gitContext)

\* C27: the outcome of removeConsoleStatements does not depend on the order
\* of the files it is given, also when a file fails: when the call has
\* ended, by a return or by a throw, the files written, the content of
\* every file and, when it returns, the total are those of the call on the
\* same files in the opposite order.
C27_OrderIndependent ==
    pc \in {"returned", "threw"} =>
        /\ (pc = "threw") = RunReversed.threw
        /\ disk = RunReversed.disk
        /\ {written[i] : i \in DOMAIN written} =
              {RunReversed.written[i] : i \in DOMAIN RunReversed.written}
        /\ pc = "returned" => totalRemoved = RunReversed.totalRemoved


\* C28: the traversal of removeFromSource never re-enters a removed
\* subtree: once a statement is deleted or a call replaced, no call inside
\* the removed call is visited, removed or counted; and removedCount counts
\* no call of the source twice.
C28_NoReentry ==
    /\ pc = "returned"
    /\ SrcFile \in DOMAIN results
    /\ ~results[SrcFile].threw
    => LET visits == results[SrcFile].visits
           gone == {i \in DOMAIN visits : Removed(visits[i])}
       IN  /\ \A i \in gone :
                 \A j \in DOMAIN visits :
                     j # i => visits[j].node \notin Subtree(visits[i].node)
           /\ \A i, j \in gone : visits[i].node = visits[j].node => i = j
           /\ results[SrcFile].removedCount = Cardinality(gone)


\* the number of statements the preview of the remove command announces
statementsToRemove ==
    StatementsToRemove(scan.byFile, DOMAIN scan.byFile, answers.methods,
                       answers.sideEffectsHandling = "skip")

AuthorRecords(output, l) ==
    {i \in DOMAIN output :
        /\ output[i].kind = "author-mail"
        /\ output[i].email # ""
        /\ l > 0
        /\ \E h \in 1..(i - 1) :
              /\ output[h].kind = "header"
              /\ output[h].finalLine = l
              /\ \A k \in (h + 1)..(i - 1) : output[k].kind # "header"}

\* C30: for a file whose blame map is available isLineByCurrentUser is true
\* exactly when the map holds, for the line, the current user's e-mail: the
\* last author-mail record of the blame output for that line is the
\* user's. A line absent from the map fails the filter.
C30_MineIffMapSaysSo ==
    Asked("isLineByCurrentUser") /\ gitBlame[oracle.filePath].status = "ok" =>
        LET blame == blameCache[oracle.filePath]
            output == gitBlame[oracle.filePath].output
            records == AuthorRecords(output, oracle.lineNumber)
        IN  /\ blame # NULL
            /\ oracle.value =
                  /\ oracle.lineNumber \in DOMAIN blame.authors
                  /\ blame.authors[oracle.lineNumber] = oracle.email
            /\ oracle.value =
                  /\ records # {}
                  /\ output[CHOOSE i \in records : \A j \in records : j <= i].email
                        = oracle.email

\* C30 witness: the map holds line 1 only, by the current user, and the
\* filter was asked for line 2 and said no
C30_Witness ==
    /\ Asked("isLineByCurrentUser")
    /\ blameCache[oracle.filePath] # NULL
    /\ DOMAIN blameCache[oracle.filePath].authors = {1}
    /\ blameCache[oracle.filePath].authors[1] = Me
    /\ oracle.lineNumber = 2
    /\ oracle.email = Me
    /\ ~oracle.value

====
